---- MODULE Spec2Model ----
(***************************************************************************)
(* A model of the brainfuck toolchain: Program construction (tokenise, RLE *)
(* fold, bracket matching), Program::get_step, the interpreter VM, the AST *)
(* lowering and optimisation, and the ARM64 back-end's emitted code.       *)
(* Indices (ip, data_ptr, jump table keys) are 0-based as in the source;   *)
(* TLA+ sequences are 1-based, so element i of a vector v is v[i + 1].     *)
(***************************************************************************)
EXTENDS Integers, Sequences, FiniteSets, TLC

VARIABLES
    phase,        \* position of the driver: "new", "ready", "failed"
    source,       \* program_string handed to Program::new
    rle,          \* the rle flag handed to Program::new
    program,      \* the Program (or the ProgramError) Program::new returned
    step_ip,      \* argument of the last Program::get_step call
    step,         \* result of the last Program::get_step call
    memory_size,  \* the memory_size handed to VM::new
    input,        \* the Stdin capability handed to VM::new
    vm,           \* the interpreter VM: ip, data_ptr, memory, stdin, stdout and
                  \* the result of its last execute_step
    program_plain,\* the Program built from the same source with rle = false
    vm_plain,     \* the VM running program_plain
    lag,          \* primitive steps vm_plain still owes to the last step of vm
    ast,          \* the optimised AST held by the JIT
    calls,        \* the emitter calls made by AST::generate_code, in order
    jit,          \* the emitted function at work: pc (index into calls), ptr
                  \* (X21 as an offset from the tape base), memory, stdin,
                  \* stdout and status
    reader,       \* the Stdin capability made from `input`, as reads consume it
    delivered,    \* what the calls of Stdin::read on `reader` returned, in order
    thunk_delivered, \* what the calls of the JIT's input thunk returned
    breakpoints,  \* the Debugger's BTreeSet, as the sequence its iterator gives
    listed,       \* what the last breakpoints_list returned
    shown,        \* what the last output() of the Debugger returned
    bp_last,      \* per index, the last of breakpoints_add / breakpoints_delete
    dbg_pc,       \* where the Debugger is: "idle", or inside the loop of run()
    dbg_call,     \* the Debugger method called last
    returned,     \* what the last step() or run() of the Debugger returned
    inspected,    \* the last inspection of the Debugger: the method, its
                  \* arguments and what it returned
    profile_data, \* the Profiler's counters
    ip_map,       \* the Profiler's map from opcode index to counter index
    executed      \* per opcode index, the iterations of the Profiler's run on it

parseVars == <<source, rle, program, step_ip, step>>
vmVars == <<memory_size, input, vm>>
plainVars == <<program_plain, vm_plain, lag>>
jitVars == <<ast, calls, jit>>
ioVars == <<reader, delivered, thunk_delivered>>
dbgVars == <<breakpoints, listed, shown, bp_last, dbg_pc, dbg_call, returned,
             inspected>>
profVars == <<profile_data, ip_map, executed>>
auxVars == <<ioVars, dbgVars, profVars>>
vars == <<phase, parseVars, vmVars, plainVars, jitVars, auxVars>>

(***************************************************************************)
(* Bounds of the model.                                                    *)
(***************************************************************************)
MaxSrcLen == 5
MaxRunLen == 4      \* longest enumerated source the interpreter is run on
MaxMem == 2         \* largest tape
MaxIn == 1          \* longest input
MaxJitLen == 3      \* longest enumerated source given to the JIT
MaxK == 2           \* largest distance of a copy loop
MaxFold == 2        \* largest fold count of a clear loop body
MaxClearVal == 3    \* largest small cell value a clear loop starts from
MaxOut == 3         \* output bytes after which a run is cut off

\* Number of values of a tape cell (u8).
CellMod == 256

(***************************************************************************)
(* Option<T>: None is the empty sequence, Some(x) the one-element sequence.*)
(***************************************************************************)
None == <<>>
Some(x) == <<x>>
IsSome(o) == o # <<>>
Unwrap(o) == o[1]

Repeat(c, n) == [i \in 1..n |-> c]

RECURSIVE SeqsUpTo(_, _)
SeqsUpTo(S, n) ==
    IF n = 0 THEN {<<>>}
    ELSE LET shorter == SeqsUpTo(S, n - 1)
         IN  shorter \cup {Append(s, c) : s \in {t \in shorter : Len(t) = n - 1}, c \in S}

Last(s) == s[Len(s)]
Front(s) == SubSeq(s, 1, Len(s) - 1)

(***************************************************************************)
(* OpCode (vm/opcode.rs).                                                  *)
(***************************************************************************)
CommandChars == {">", "<", "+", "-", ",", ".", "[", "]"}

OpCode(op, count) == [op |-> op, count |-> count]

\* OpCode::convert: a command character becomes its opcode with count 1,
\* every other character is dropped (None).
convert(c) ==
    CASE c = ">" -> Some(OpCode("IncDataPtr", 1))
      [] c = "<" -> Some(OpCode("DecDataPtr", 1))
      [] c = "+" -> Some(OpCode("IncValue", 1))
      [] c = "-" -> Some(OpCode("DecValue", 1))
      [] c = "," -> Some(OpCode("Input", 1))
      [] c = "." -> Some(OpCode("Output", 1))
      [] c = "[" -> Some(OpCode("LoopStart", 1))
      [] c = "]" -> Some(OpCode("LoopEnd", 1))
      [] OTHER -> None

\* OpCode::to_char
to_char(opcode) ==
    CASE opcode.op = "IncDataPtr" -> ">"
      [] opcode.op = "DecDataPtr" -> "<"
      [] opcode.op = "IncValue" -> "+"
      [] opcode.op = "DecValue" -> "-"
      [] opcode.op = "Input" -> ","
      [] opcode.op = "Output" -> "."
      [] opcode.op = "LoopStart" -> "["
      [] opcode.op = "LoopEnd" -> "]"

CountedOps == {"IncDataPtr", "DecDataPtr", "IncValue", "DecValue"}

\* OpCode::count
count(opcode) == IF opcode.op \in CountedOps THEN opcode.count ELSE 1

(***************************************************************************)
(* Program::new (vm/program.rs).                                           *)
(***************************************************************************)
\* A filter that also drops the commands after a character that is none.
TokeniseUpToOther(program_string) ==
    LET Stop(i) == \E j \in 1..i : ~IsSome(convert(program_string[j]))
        n == Cardinality({i \in 1..Len(program_string) : ~Stop(i)})
    IN  [i \in 1..n |-> Unwrap(convert(program_string[i]))]
\* program_string.chars().filter_map(OpCode::convert).collect()
Tokenise(program_string) ==
    LET kept == SelectSeq(program_string, LAMBDA c : IsSome(convert(c)))
    IN  [i \in 1..Len(kept) |-> Unwrap(convert(kept[i]))]

\* The closure of the RLE fold: merge `current` into the top of `acc` when
\* both are the same counted kind and `current` has count 1.
RleMergesAnyCounted(top, current) ==
    /\ top.op \in CountedOps
    /\ current.op \in CountedOps
    /\ current.count = 1
\* A merge of any two opcodes of the same kind, counted or not.
RleMergesSameKind(top, current) ==
    /\ current.op = top.op
    /\ current.count = 1
RleMerges(top, current) ==
    /\ top.op \in CountedOps
    /\ current.op = top.op
    /\ current.count = 1

\* The closure of the fold: acc.pop() gives top, and either the merged opcode
\* or top and current are pushed.
RleStep(acc, current) ==
    IF acc = <<>> THEN <<current>>
    ELSE LET top == Last(acc)
         IN  IF RleMerges(top, current)
             THEN Append(Front(acc), OpCode(top.op, top.count + 1))
             ELSE Append(acc, current)

\* code.iter().fold(acc, closure) over the tokens lo..hi, in order.  The
\* range is halved, and the first half is folded before the second is
\* entered, so that the evaluation nests by the logarithm of the length.
RECURSIVE RleFoldRange(_, _, _, _)
RleFoldRange(code, lo, hi, acc) ==
    IF lo > hi THEN acc
    ELSE IF lo = hi THEN RleStep(acc, code[lo])
    ELSE LET mid == (lo + hi) \div 2
             first == RleFoldRange(code, lo, mid, acc)
         IN  IF Len(first) > 0 THEN RleFoldRange(code, mid + 1, hi, first)
             ELSE RleFoldRange(code, mid + 1, hi, <<>>)

RleFold(code) == RleFoldRange(code, 1, Len(code), <<>>)

\* jump_table.insert(start, index); jump_table.insert(index, start)
InsertPairOneWay(jump_table, start, index) == (start :> index) @@ jump_table
InsertPair(jump_table, start, index) ==
    (index :> start) @@ (start :> index) @@ jump_table

\* The jump-table scan: try_for_each over the enumerated code, stopping at
\* the first LoopEnd met with an empty stack.
\* One round of `for (index, opcode) in code.iter().enumerate()`; a round
\* after the early return of Err(MissingBracket(index)) does nothing.
ScanStep(code, st, index) ==
    LET opcode == code[index + 1]
    IN  IF IsSome(st.err) THEN st
        ELSE CASE opcode.op = "LoopStart" ->
                    [st EXCEPT !.stack = Append(@, index)]
               [] opcode.op = "LoopEnd" ->
                    IF st.stack = <<>> THEN [st EXCEPT !.err = Some(index)]
                    ELSE [st EXCEPT !.stack = Front(@),
                                    !.jump_table = InsertPair(@, Last(st.stack), index)]
               [] OTHER -> st

\* The rounds for the indices lo..hi, in order (halved as in RleFoldRange);
\* the early return ends them.
RECURSIVE ScanRange(_, _, _, _)
ScanRange(code, lo, hi, st) ==
    IF lo > hi THEN st
    ELSE IF lo = hi THEN ScanStep(code, st, lo)
    ELSE LET mid == (lo + hi) \div 2
             first == ScanRange(code, lo, mid, st)
         IN  IF IsSome(first.err) THEN first
             ELSE ScanRange(code, mid + 1, hi, first)

ScanBrackets(code) ==
    ScanRange(code, 0, Len(code) - 1, [err |-> None, stack |-> <<>>, jump_table |-> <<>>])

ProgramOk(code, jump_table) ==
    [ok |-> TRUE, code |-> code, jump_table |-> jump_table, index |-> 0]
MissingBracket(index) ==
    [ok |-> FALSE, code |-> <<>>, jump_table |-> <<>>, index |-> index]

\* After the scan: `result_jump_table?`, then the check for an open bracket
\* left on the stack (stack.pop()), then Ok(Program { code, jump_table }).
FinishScanNoOpenCheck(code, scan) ==
    IF IsSome(scan.err) THEN MissingBracket(Unwrap(scan.err))
    ELSE ProgramOk(code, scan.jump_table)
FinishScan(code, scan) ==
    IF IsSome(scan.err) THEN MissingBracket(Unwrap(scan.err))
    ELSE IF scan.stack # <<>> THEN MissingBracket(Last(scan.stack))
    ELSE ProgramOk(code, scan.jump_table)

\* The opcode stream Program::new scans: the tokens, folded when rle is set.
OpcodeStream(program_string, rle_flag) ==
    IF rle_flag THEN RleFold(Tokenise(program_string)) ELSE Tokenise(program_string)

ProgramNew(program_string, rle_flag) ==
    LET code == OpcodeStream(program_string, rle_flag)
    IN  FinishScan(code, ScanBrackets(code))

(***************************************************************************)
(* Program::get_step (vm/program.rs).                                      *)
(***************************************************************************)
Step(opcode, then_ip, else_ip) ==
    [opcode |-> opcode, then_ip |-> then_ip, else_ip |-> else_ip]

JumpGet(p, ip) == IF ip \in DOMAIN p.jump_table THEN Some(p.jump_table[ip]) ELSE None

\* A next index that passes over one opcode.
NextIpSkips(p, x) == IF x + 2 < Len(p.code) THEN Some(x + 2) ELSE None
\* The next index without the test against the length.
NextIpUnchecked(p, x) == Some(x + 1)
\* `if x + 1 < self.code.len() { Some(x + 1) } else { None }`
NextIp(p, x) == IF x + 1 < Len(p.code) THEN Some(x + 1) ELSE None

LoopStartStep(p, ip, opcode, loop_end_index) ==
    Step(opcode, NextIp(p, ip), NextIp(p, loop_end_index))

LoopEndStepSwapped(p, ip, opcode, loop_start_index) ==
    Step(opcode, NextIp(p, ip), Some(loop_start_index + 1))
LoopEndStep(p, ip, opcode, loop_start_index) ==
    Step(opcode, Some(loop_start_index + 1), NextIp(p, ip))

get_step(p, ip) ==
    IF ip >= Len(p.code) THEN None
    ELSE LET opcode == p.code[ip + 1]
         IN  CASE opcode.op = "LoopStart" ->
                    IF IsSome(JumpGet(p, ip))
                    THEN Some(LoopStartStep(p, ip, opcode, Unwrap(JumpGet(p, ip))))
                    ELSE None
               [] opcode.op = "LoopEnd" ->
                    IF IsSome(JumpGet(p, ip))
                    THEN Some(LoopEndStep(p, ip, opcode, Unwrap(JumpGet(p, ip))))
                    ELSE None
               [] OTHER -> Some(Step(opcode, NextIp(p, ip), None))

(***************************************************************************)
(* Sources the front-end is run on.                                        *)
(***************************************************************************)
HelloWorld ==
    <<"+","+","+","+","+","+","+","+","[",">","+","+","+","+","[",">","+","+",
      ">","+","+","+",">","+","+","+",">","+","<","<","<","<","-","]",">","+",
      ">","+",">","-",">",">","+","[","<","]","<","-","]",">",">",".",">","-",
      "-","-",".","+","+","+","+","+","+","+",".",".","+","+","+",".",">",">",
      ".","<","-",".","<",".","+","+","+",".","-","-","-","-","-","-",".","-",
      "-","-","-","-","-","-","-",".",">",">","+",".",">","+","+",".">>

ParseAlphabet == {"[", "]", "+", ">", ".", "x"}

ParseScenarios ==
    { <<"[","[","[","]","]">>,
      <<"[","[","[","]","]","]","]">>,
      <<"[","[","[","]","]","]">>,
      Repeat("+", 10) \o <<"[">> \o Repeat("-", 10) \o <<"]">>,
      <<",", "[", "x", "<", "-", "]", ".", ">", "+">>,
      HelloWorld }

ParseSources == SeqsUpTo(ParseAlphabet, MaxSrcLen) \cup ParseScenarios

\* impl Display for Program: self.code.iter().map(OpCode::to_char).collect()
fmt(p) == [i \in 1..Len(p.code) |-> to_char(p.code[i])]

NoProgram == [ok |-> FALSE, code |-> <<>>, jump_table |-> <<>>, index |-> 0]

(***************************************************************************)
(* The I/O capabilities (io/string.rs, io/console.rs).  A Stdin is its     *)
(* kind and the characters still unread; a Stdout the characters written.  *)
(***************************************************************************)
Newline == 10

StdinString(value) == [kind |-> "string", data |-> value]
StdinConsole(bytes) == [kind |-> "console", data |-> bytes]

ReadOk(value, rest) == [res |-> "Ok", value |-> value, rest |-> rest]
ReadErr(rest) == [res |-> "Err", value |-> None, rest |-> rest]

\* StdinString::read: Ok(self.chars.next())
StdinStringRead(stdin) ==
    IF stdin.data = <<>> THEN ReadOk(None, stdin)
    ELSE ReadOk(Some(Head(stdin.data)), [stdin EXCEPT !.data = Tail(@)])

\* A console read that passes every byte through, '\n' included.
StdinConsoleReadRaw(stdin) ==
    IF stdin.data = <<>> THEN ReadErr(stdin)
    ELSE ReadOk(Some(Head(stdin.data)), [stdin EXCEPT !.data = Tail(@)])

\* StdinConsole::read: read_exact of one byte fails at end of input; the byte
\* '\n' is returned as 0x0.
StdinConsoleRead(stdin) ==
    IF stdin.data = <<>> THEN ReadErr(stdin)
    ELSE ReadOk(Some(IF Head(stdin.data) = Newline THEN 0 ELSE Head(stdin.data)),
                [stdin EXCEPT !.data = Tail(@)])

StdinRead(stdin) ==
    IF stdin.kind = "string" THEN StdinStringRead(stdin) ELSE StdinConsoleRead(stdin)

\* A write that puts the new value before the earlier output.
StdoutWriteFront(stdout, value) == <<value>> \o stdout
\* StdoutString::write / StdoutConsole::write: self.output.push(value)
StdoutWrite(stdout, value) == Append(stdout, value)

(***************************************************************************)
(* The interpreter VM (vm/vm.rs).                                          *)
(***************************************************************************)
NoVM == [ip |-> 0, data_ptr |-> 0, memory |-> <<>>, stdin |-> StdinString(<<>>),
         stdout |-> <<>>, result |-> "none"]

\* VM::new, once Program::new has succeeded
VMNew(stdin, size) ==
    [ip |-> 0, data_ptr |-> 0, memory |-> Repeat(0, size), stdin |-> stdin,
     stdout |-> <<>>, result |-> "none"]

EvalErrors == {"MemoryOutOfBounds", "InvalidInstructionPointer", "IOError"}

Cell(v) == v.memory[v.data_ptr + 1]
SetCell(v, value) == [v EXCEPT !.memory[v.data_ptr + 1] = value]

\* u8::wrapping_add(count as u8), u8::wrapping_sub(count as u8)
SaturatingAdd(cell, n) == IF cell + n >= CellMod THEN CellMod - 1 ELSE cell + n
WrappingAdd(cell, n) == (cell + (n % CellMod)) % CellMod
SaturatingSub(cell, n) == IF cell < n THEN 0 ELSE cell - n
WrappingSub(cell, n) == (cell + CellMod - (n % CellMod)) % CellMod

\* `value as u8`
AsU8(value) == value % CellMod

\* The guards of the two pointer arms.
\* A guard that fails only at cell 0.
DecDataPtrFailsAtZero(v, n) == v.data_ptr = 0
DecDataPtrFails(v, n) == v.data_ptr < n
IncDataPtrFailsPastEnd(v, n) == v.data_ptr + n > Len(v.memory)
IncDataPtrFails(v, n) == v.data_ptr + n >= Len(v.memory)

\* A failure that has moved ip on.
FailMovedOn(v, error) == [v EXCEPT !.result = error, !.ip = @ + 1]
\* `return Err(error)`, and what `?` returns
Fail(v, error) == [v EXCEPT !.result = error]

\* `if let Some(next_ip) = next_ip_option { self.ip = next_ip } else { return
\* Ok(true) }; Ok(false)`
Advance(v, next_ip_option) ==
    IF IsSome(next_ip_option)
    THEN [v EXCEPT !.ip = Unwrap(next_ip_option), !.result = "Ok(false)"]
    ELSE [v EXCEPT !.result = "Ok(true)"]

\* The Input arm: one read; Some(value) is stored, None leaves the cell, an
\* error is returned by `?`.
InputArmZeroAtEof(v, s) ==
    LET r == StdinRead(v.stdin)
        w == [v EXCEPT !.stdin = r.rest]
    IN  IF r.res = "Err" THEN Fail(w, "IOError")
        ELSE Advance(SetCell(w, IF IsSome(r.value) THEN AsU8(Unwrap(r.value)) ELSE 0),
                     s.then_ip)
InputArm(v, s) ==
    LET r == StdinRead(v.stdin)
        w == [v EXCEPT !.stdin = r.rest]
    IN  IF r.res = "Err" THEN Fail(w, "IOError")
        ELSE IF IsSome(r.value)
             THEN Advance(SetCell(w, AsU8(Unwrap(r.value))), s.then_ip)
             ELSE Advance(w, s.then_ip)

\* An Output arm that also clears the cell it wrote.
OutputArmClears(v, s) ==
    Advance(SetCell([v EXCEPT !.stdout = StdoutWrite(@, Cell(v))], 0), s.then_ip)
OutputArm(v, s) ==
    Advance([v EXCEPT !.stdout = StdoutWrite(@, Cell(v))], s.then_ip)

\* A loop arm that takes then_ip on a zero cell.
LoopArmSwapped(v, s) == Advance(v, IF Cell(v) = 0 THEN s.then_ip ELSE s.else_ip)
\* The LoopStart | LoopEnd arm
LoopArm(v, s) == Advance(v, IF Cell(v) = 0 THEN s.else_ip ELSE s.then_ip)

\* `self.memory[self.data_ptr]` panics when data_ptr is not an index of the tape.
InTape(v) == v.data_ptr < Len(v.memory)

\* VM::execute_step
execute_step(p, v) ==
    LET step_option == get_step(p, v.ip)
    IN  IF step_option = None THEN [v EXCEPT !.result = "Ok(true)"]
        ELSE LET s == Unwrap(step_option)
                 n == s.opcode.count
             IN  CASE s.opcode.op \notin {"DecDataPtr", "IncDataPtr"} /\ ~InTape(v) ->
                        Fail(v, "panic")
                   [] s.opcode.op = "DecDataPtr" ->
                        IF DecDataPtrFails(v, n) THEN Fail(v, "MemoryOutOfBounds")
                        ELSE Advance([v EXCEPT !.data_ptr = @ - n], s.then_ip)
                   [] s.opcode.op = "IncDataPtr" ->
                        IF IncDataPtrFails(v, n) THEN Fail(v, "InvalidInstructionPointer")
                        ELSE Advance([v EXCEPT !.data_ptr = @ + n], s.then_ip)
                   [] s.opcode.op = "DecValue" ->
                        Advance(SetCell(v, WrappingSub(Cell(v), n)), s.then_ip)
                   [] s.opcode.op = "IncValue" ->
                        Advance(SetCell(v, WrappingAdd(Cell(v), n)), s.then_ip)
                   [] s.opcode.op = "Input" -> InputArm(v, s)
                   [] s.opcode.op = "Output" -> OutputArm(v, s)
                   [] s.opcode.op \in {"LoopStart", "LoopEnd"} -> LoopArm(v, s)

\* The opcode execute_step is about to execute, if any.
CurrentOp(p, v) ==
    IF v.ip < Len(p.code) THEN p.code[v.ip + 1] ELSE OpCode("none", 0)

(***************************************************************************)
(* The AST (jit/ast.rs).  A node is its variant and its argument: a count, *)
(* the children of a Loop or Program, the value of a Set, the offset of an *)
(* AddTo.                                                                  *)
(***************************************************************************)
Node(kind, arg) == [kind |-> kind, arg |-> arg]

\* AST::convert_opcodes: the nodes of the opcodes [start, end).  ConvertWhile
\* is the while loop over its state (index, nodes); ConvertOne is the match
\* on the opcode at index.
RECURSIVE convert_opcodes(_, _, _)
RECURSIVE ConvertWhile(_, _, _)
\* A LoopStart arm whose body stops one opcode before the last.
ConvertOneShortBody(p, index) ==
    LET opcode == p.code[index + 1]
    IN  CASE opcode.op = "LoopStart" ->
                Node("Loop", convert_opcodes(p, index + 1, p.jump_table[index] - 1))
          [] opcode.op = "LoopEnd" -> Node("unreachable", 0)
          [] opcode.op \in CountedOps -> Node(opcode.op, opcode.count)
          [] OTHER -> Node(opcode.op, 0)
ConvertOne(p, index) ==
    LET opcode == p.code[index + 1]
    IN  CASE opcode.op = "LoopStart" ->
                Node("Loop", convert_opcodes(p, index + 1, p.jump_table[index]))
          [] opcode.op = "LoopEnd" -> Node("unreachable", 0)
          [] opcode.op \in CountedOps -> Node(opcode.op, opcode.count)
          [] OTHER -> Node(opcode.op, 0)
ConvertWhile(p, st, end) ==
    IF st.index >= end THEN st.nodes
    ELSE ConvertWhile(p,
                      [index |-> (IF p.code[st.index + 1].op = "LoopStart"
                                  THEN p.jump_table[st.index] ELSE st.index) + 1,
                       nodes |-> Append(st.nodes, ConvertOne(p, st.index))],
                      end)
convert_opcodes(p, start, end) == ConvertWhile(p, [index |-> start, nodes |-> <<>>], end)

Kinds(block) == [i \in 1..Len(block) |-> block[i].kind]

\* The match on the optimised body of a Loop.
RewriteLoopAddToUnsigned(updated_codeblock) ==
    LET b == updated_codeblock
        k == Kinds(b)
    IN  IF k = <<"DecValue">> \/ k = <<"IncValue">> THEN Node("Set", 0)
        ELSE IF k = <<"DecValue", "IncDataPtr", "IncValue", "DecDataPtr">>
                  /\ b[1].arg = 1 /\ b[3].arg = 1 /\ b[2].arg = b[4].arg
             THEN Node("AddTo", b[4].arg)
        ELSE IF k = <<"DecValue", "DecDataPtr", "IncValue", "IncDataPtr">>
                  /\ b[1].arg = 1 /\ b[3].arg = 1 /\ b[4].arg = b[2].arg
             THEN Node("AddTo", b[2].arg)
        ELSE IF k = <<"DecDataPtr", "IncValue", "IncDataPtr", "DecValue">>
                  /\ b[2].arg = 1 /\ b[4].arg = 1 /\ b[3].arg = b[1].arg
             THEN Node("AddTo", b[1].arg)
        ELSE IF k = <<"IncDataPtr", "IncValue", "DecDataPtr", "DecValue">>
                  /\ b[2].arg = 1 /\ b[4].arg = 1 /\ b[1].arg = b[3].arg
             THEN Node("AddTo", b[3].arg)
        ELSE Node("Loop", b)

\* The match without the `if a == b` of the first copy shape.
RewriteLoopUnequal(updated_codeblock) ==
    LET b == updated_codeblock
        k == Kinds(b)
    IN  IF k = <<"DecValue">> \/ k = <<"IncValue">> THEN Node("Set", 0)
        ELSE IF k = <<"DecValue", "IncDataPtr", "IncValue", "DecDataPtr">>
                  /\ b[1].arg = 1 /\ b[3].arg = 1
             THEN Node("AddTo", b[4].arg)
        ELSE IF k = <<"DecValue", "DecDataPtr", "IncValue", "IncDataPtr">>
                  /\ b[1].arg = 1 /\ b[3].arg = 1 /\ b[4].arg = b[2].arg
             THEN Node("AddTo", -b[2].arg)
        ELSE IF k = <<"DecDataPtr", "IncValue", "IncDataPtr", "DecValue">>
                  /\ b[2].arg = 1 /\ b[4].arg = 1 /\ b[3].arg = b[1].arg
             THEN Node("AddTo", -b[1].arg)
        ELSE IF k = <<"IncDataPtr", "IncValue", "DecDataPtr", "DecValue">>
                  /\ b[2].arg = 1 /\ b[4].arg = 1 /\ b[1].arg = b[3].arg
             THEN Node("AddTo", b[3].arg)
        ELSE Node("Loop", b)

RewriteLoop(updated_codeblock) ==
    LET b == updated_codeblock
        k == Kinds(b)
    IN  IF k = <<"DecValue">> \/ k = <<"IncValue">> THEN Node("Set", 0)
        ELSE IF k = <<"DecValue", "IncDataPtr", "IncValue", "DecDataPtr">>
                  /\ b[1].arg = 1 /\ b[3].arg = 1 /\ b[2].arg = b[4].arg
             THEN Node("AddTo", b[4].arg)
        ELSE IF k = <<"DecValue", "DecDataPtr", "IncValue", "IncDataPtr">>
                  /\ b[1].arg = 1 /\ b[3].arg = 1 /\ b[4].arg = b[2].arg
             THEN Node("AddTo", -b[2].arg)
        ELSE IF k = <<"DecDataPtr", "IncValue", "IncDataPtr", "DecValue">>
                  /\ b[2].arg = 1 /\ b[4].arg = 1 /\ b[3].arg = b[1].arg
             THEN Node("AddTo", -b[1].arg)
        ELSE IF k = <<"IncDataPtr", "IncValue", "DecDataPtr", "DecValue">>
                  /\ b[2].arg = 1 /\ b[4].arg = 1 /\ b[1].arg = b[3].arg
             THEN Node("AddTo", b[3].arg)
        ELSE Node("Loop", b)

\* AST::optimize
RECURSIVE optimize(_)
\* An optimiser that leaves the children of a Loop as they are.
optimizeShallow(node) ==
    CASE node.kind = "Program" ->
            Node("Program", [i \in 1..Len(node.arg) |-> optimize(node.arg[i])])
      [] node.kind = "Loop" -> RewriteLoop(node.arg)
      [] OTHER -> node
optimize(node) ==
    CASE node.kind = "Program" ->
            Node("Program", [i \in 1..Len(node.arg) |-> optimize(node.arg[i])])
      [] node.kind = "Loop" ->
            RewriteLoop([i \in 1..Len(node.arg) |-> optimize(node.arg[i])])
      [] OTHER -> node

\* AST::new
ASTNew(p) == optimize(Node("Program", convert_opcodes(p, 0, Len(p.code))))

(***************************************************************************)
(* Code generation (jit/ast.rs): the calls made on the CodeGenerator.  An  *)
(* emitter state is the calls made so far and the next dynamic label.      *)
(***************************************************************************)
Call(name, arg, labels) == [name |-> name, arg |-> arg, labels |-> labels]
Emit(st, name, arg) == [st EXCEPT !.calls = Append(@, Call(name, arg, <<>>))]

\* A loop_end handed the two labels in the other order.
LoopEndCallSwapped(labels) == Call("loop_end", 0, <<labels[2], labels[1]>>)
\* code_gen.loop_end(loop_start, loop_end)
LoopEndCall(labels) == Call("loop_end", 0, labels)

RECURSIVE generate_code_inner(_, _)
RECURSIVE generate_code_block(_, _, _)

\* AST::generate_code_block, from node i on
generate_code_block(nodes, i, st) ==
    IF i > Len(nodes) THEN st
    ELSE generate_code_block(nodes, i + 1, generate_code_inner(nodes[i], st))

\* AST::generate_code_inner
generate_code_inner(node, st) ==
    CASE node.kind = "IncValue" -> Emit(st, "update_value", node.arg)
      [] node.kind = "DecValue" -> Emit(st, "update_value", -node.arg)
      [] node.kind = "IncDataPtr" -> Emit(st, "update_memory_ptr", node.arg)
      [] node.kind = "DecDataPtr" -> Emit(st, "update_memory_ptr", -node.arg)
      [] node.kind = "Output" -> Emit(st, "output", 0)
      [] node.kind = "Input" -> Emit(st, "input", 0)
      [] node.kind = "Set" -> Emit(st, "set", node.arg)
      [] node.kind = "AddTo" -> Emit(st, "add_to", node.arg)
      [] node.kind = "Loop" ->
            \* loop_start() allocates the two labels it returns
            LET labels == <<st.next_label, st.next_label + 1>>
                opened == [calls |-> Append(st.calls, Call("loop_start", 0, labels)),
                           next_label |-> st.next_label + 2]
                body == generate_code_block(node.arg, 1, opened)
            IN  [body EXCEPT !.calls = Append(@, LoopEndCall(labels))]
      [] node.kind = "Program" ->
            LET body == generate_code_block(node.arg, 1, Emit(st, "function_prolog", 0))
            IN  Emit(body, "function_epilog", 0)

\* AST::generate_code
generate_code(tree) == generate_code_inner(tree, [calls |-> <<>>, next_label |-> 0]).calls

(***************************************************************************)
(* The emitted ARM64 code at work (jit/codegen/arm.rs, jit/jit.rs).  The   *)
(* code of call number pc runs as one step.  X21 is kept as an offset from *)
(* the tape base.  The emitted code checks no bounds: a load or store at   *)
(* an offset outside the tape is an access outside the allocation, which   *)
(* either faults or goes through, the load then giving any byte and the    *)
(* store not landing in the tape.                                          *)
(***************************************************************************)
\* Values a load outside the tape is taken to give.
WildBytes == {0, 1}

\* JIT::run: the tape is vec![0; memory_size], the thunks read the console
JitStart(bytes, size) ==
    [pc |-> 0, ptr |-> 0, memory |-> Repeat(0, size), stdin |-> bytes,
     stdout |-> <<>>, status |-> "running"]
NoJit == [pc |-> 0, ptr |-> 0, memory |-> <<>>, stdin |-> <<>>, stdout |-> <<>>,
          status |-> "none"]

Inside(j, addr) == addr >= 0 /\ addr < Len(j.memory)
\* ldrb from [X21 + off]: the values the load can give
Loads(j, off) == IF Inside(j, j.ptr + off) THEN {j.memory[j.ptr + off + 1]} ELSE WildBytes
\* strb to [X21 + off]
Store(j, off, value) ==
    IF Inside(j, j.ptr + off)
    THEN [j EXCEPT !.memory[j.ptr + off + 1] = value % CellMod]
    ELSE j
Goto(j, pc) == [j EXCEPT !.pc = pc]
Fault(j) == [j EXCEPT !.status = "fault"]
\* An access outside the tape may also fault.
Guarded(j, offs, outcomes) ==
    IF \A off \in offs : Inside(j, j.ptr + off) THEN outcomes ELSE outcomes \cup {Fault(j)}

\* Positions (0-based) of the code a label is bound to.
StartOf(cs, labels) == CHOOSE i \in 0..Len(cs) - 1 :
                          cs[i + 1].name = "loop_start" /\ cs[i + 1].labels = labels
EndOf(cs, labels) == 1 + CHOOSE i \in 0..Len(cs) - 1 :
                            cs[i + 1].name = "loop_end" /\ cs[i + 1].labels = labels

\* input thunk (jit.rs): read_exact(..).unwrap() panics at end of input;
\* '\n' is returned as 0x0
InputThunk(j) ==
    IF j.stdin = <<>> THEN [j EXCEPT !.status = "panic"]
    ELSE Store([j EXCEPT !.stdin = Tail(@)], 0,
               IF Head(j.stdin) = Newline THEN 0 ELSE Head(j.stdin))

\* add_to: W13 <- [X21]; W14 <- [X21+off]; W14 += W13; [X21+off] <- W14; [X21] <- 0
AddToNoClear(j, off) ==
    {Store(j, off, t + c) : c \in Loads(j, 0), t \in Loads(j, off)}
AddTo(j, off) ==
    {Store(Store(j, off, t + c), 0, 0) : c \in Loads(j, 0), t \in Loads(j, off)}

\* The states the code of call cs[j.pc + 1] can leave.
JitExec(cs, j) ==
    LET c == cs[j.pc + 1]
        next == j.pc + 1
    IN  CASE c.name = "function_prolog" -> {Goto([j EXCEPT !.ptr = 0], next)}
          [] c.name = "function_epilog" -> {[j EXCEPT !.status = "returned"]}
          [] c.name = "update_value" ->
                Guarded(j, {0}, {Goto(Store(j, 0, b + c.arg), next) :
                                    b \in Loads(j, 0)})
          [] c.name = "update_memory_ptr" -> {Goto([j EXCEPT !.ptr = @ + c.arg], next)}
          [] c.name = "set" -> Guarded(j, {0}, {Goto(Store(j, 0, c.arg), next)})
          [] c.name = "add_to" ->
                Guarded(j, {0, c.arg}, {Goto(k, next) : k \in AddTo(j, c.arg)})
          [] c.name = "input" ->
                IF j.stdin = <<>> THEN {InputThunk(j)}
                ELSE Guarded(j, {0}, {Goto(InputThunk(j), next)})
          [] c.name = "output" ->
                Guarded(j, {0}, {Goto([j EXCEPT !.stdout = Append(@, b)], next) :
                                    b \in Loads(j, 0)})
          [] c.name = "loop_start" ->
                Guarded(j, {0}, {Goto(j, IF b = 0 THEN EndOf(cs, c.labels) ELSE next) :
                                    b \in Loads(j, 0)})
          [] c.name = "loop_end" -> {Goto(j, StartOf(cs, c.labels))}

JitOver(j) == j.status \in {"returned", "fault", "panic"}

(***************************************************************************)
(* Sources and inputs the interpreter is run on.                           *)
(***************************************************************************)
Range(s) == {s[i] : i \in DOMAIN s}

RunScenarios ==
    { Repeat("+", CellMod), Repeat("+", CellMod + 1), Repeat("-", CellMod + 1),
      <<"-">> \o Repeat("+", CellMod) }

RunSources == SeqsUpTo(CommandChars, MaxRunLen) \cup RunScenarios

\* Characters of a string input (one of them outside u8) and bytes of a
\* console input.
StringChars == {Newline, 65, 321}
ConsoleBytes == {Newline, 65}

Stdins ==
    {StdinString(d) : d \in SeqsUpTo(StringChars, MaxIn)}
        \cup {StdinConsole(d) : d \in SeqsUpTo(ConsoleBytes, MaxIn)}

PlainIdle == program_plain = NoProgram /\ vm_plain = NoVM /\ lag = 0
JitIdle == ast = Node("Program", <<>>) /\ calls = <<>> /\ jit = NoJit
IoIdle == reader = StdinString(<<>>) /\ delivered = <<>> /\ thunk_delivered = <<>>
NoInspection == [op |-> "none", args |-> <<>>, ret |-> <<>>]

DbgIdle ==
    /\ inspected = NoInspection
    /\ breakpoints = <<>>
    /\ listed = <<>>
    /\ shown = <<>>
    /\ bp_last = <<>>
    /\ dbg_pc = "idle"
    /\ dbg_call = "none"
    /\ returned = "none"
ProfIdle == profile_data = <<>> /\ ip_map = <<>> /\ executed = <<>>
AuxIdle == IoIdle /\ DbgIdle /\ ProfIdle

(***************************************************************************)
(* SpecParse: Program::new on a source, then get_step queries.             *)
(***************************************************************************)
InitParse ==
    /\ phase = "new"
    /\ source \in ParseSources
    /\ rle \in BOOLEAN
    /\ program = NoProgram
    /\ step_ip = 0
    /\ step = None
    /\ memory_size = 0
    /\ input = StdinString(<<>>)
    /\ vm = NoVM
    /\ PlainIdle
    /\ JitIdle
    /\ AuxIdle

\* Program::new(source, rle)
ProgramNewCall ==
    /\ phase = "new"
    /\ program' = ProgramNew(source, rle)
    /\ phase' = IF program'.ok THEN "ready" ELSE "failed"
    /\ UNCHANGED <<source, rle, step_ip, step,
                   vmVars, plainVars, jitVars, auxVars>>

\* program.get_step(ip), for an ip inside the code or just past its end
GetStepCall ==
    /\ phase \in {"ready", "stepped"}
    /\ \E ip \in 0..Len(program.code) + 1 :
          /\ step_ip' = ip
          /\ step' = get_step(program, ip)
    /\ phase' = "stepped"
    /\ UNCHANGED <<source, rle, program, vmVars, plainVars, jitVars, auxVars>>

NextParse == ProgramNewCall \/ GetStepCall

SpecParse == InitParse /\ [][NextParse]_vars

(***************************************************************************)
(* Spec: VM::new followed by VM<Normal>::run, one execute_step at a time.  *)
(***************************************************************************)
Init ==
    /\ phase = "new"
    /\ source \in RunSources
    /\ rle \in BOOLEAN
    \* the tape size matters only to sources that move right, the input only
    \* to sources that read
    /\ memory_size \in (IF ">" \in Range(source) THEN 1..MaxMem ELSE {1})
    /\ input \in (IF "," \in Range(source) THEN Stdins ELSE {StdinString(<<>>)})
    /\ program = NoProgram
    /\ step_ip = 0
    /\ step = None
    /\ vm = NoVM
    /\ PlainIdle
    /\ JitIdle
    /\ AuxIdle

\* "Hello World!\n"
HelloOutput == <<72, 101, 108, 108, 111, 32, 87, 111, 114, 108, 100, 33, 10>>
\* The runs write at most MaxOut values, the hello-world run its whole text.
OutputCap == IF source = HelloWorld THEN Len(HelloOutput) ELSE MaxOut

\* VM::new(source, stdin, stdout, rle, memory_size)
VMNewCall ==
    /\ phase = "new"
    /\ program' = ProgramNew(source, rle)
    /\ IF program'.ok
       THEN vm' = VMNew(input, memory_size) /\ phase' = "running"
       ELSE vm' = vm /\ phase' = "failed"
    /\ UNCHANGED <<source, rle, step_ip, step,
                   memory_size, input, plainVars, jitVars, auxVars>>

\* One iteration of the loop of VM<Normal>::run: execute_step, then break on
\* Ok(true) and return on an error.
RunStep ==
    /\ phase = "running"
    /\ CurrentOp(program, vm).op = "Output" => Len(vm.stdout) < OutputCap
    /\ vm' = execute_step(program, vm)
    /\ phase' = IF vm'.result = "Ok(false)" THEN "running" ELSE "finished"
    /\ UNCHANGED <<parseVars, memory_size, input, plainVars, jitVars, auxVars>>

Next == VMNewCall \/ RunStep

Spec == Init /\ [][Next]_vars

\* SpecStraight: the run loop, kept going, on sources without brackets.
MaxStraightLen == 3

StraightChars == CommandChars \ {"[", "]"}

InitStraight ==
    /\ phase = "new"
    /\ source \in SeqsUpTo(StraightChars, MaxStraightLen)
    /\ rle \in BOOLEAN
    /\ memory_size \in (IF ">" \in Range(source) THEN 1..MaxMem ELSE {1})
    /\ input \in (IF "," \in Range(source) THEN Stdins ELSE {StdinString(<<>>)})
    /\ program = NoProgram
    /\ step_ip = 0
    /\ step = None
    /\ vm = NoVM
    /\ PlainIdle
    /\ JitIdle
    /\ AuxIdle

SpecStraight == InitStraight /\ [][Next]_vars /\ WF_vars(RunStep)

\* SpecHello: test_helloworld, the hello-world source on a string input
\* with nothing in it and a tape of 1 << 10 cells, without folding.
HelloMem == 1024

InitHello ==
    /\ phase = "new"
    /\ source = HelloWorld
    /\ rle = FALSE
    /\ memory_size = HelloMem
    /\ input = StdinString(<<>>)
    /\ program = NoProgram
    /\ step_ip = 0
    /\ step = None
    /\ vm = NoVM
    /\ PlainIdle
    /\ JitIdle
    /\ AuxIdle

\* run() keeps stepping until a step ends it.
SpecHello == InitHello /\ [][Next]_vars /\ WF_vars(RunStep)

(***************************************************************************)
(* SpecRle: one source run by two interpreters, one on the opcodes folded  *)
(* with rle = true (program, vm) and one on the opcodes of rle = false     *)
(* (program_plain, vm_plain).  The folded VM takes a step, then the plain  *)
(* VM takes as many steps as the executed opcode counts characters.        *)
(***************************************************************************)
RleScenarios ==
    { <<"+", "[", "-", "-", "]">>, <<"+", "+", "[", "-", "-", "]">>,
      <<"+", "+", "[", ">", "+", "+", "<", "-", "]">>,
      <<"+", "+", ">", ">", "<", "<", ".">>, <<",", ",", ".", ".">> }

RleSources == RunSources \cup RleScenarios

Over(v) == v.result \notin {"none", "Ok(false)"}

InitRle ==
    /\ phase = "new"
    /\ source \in RleSources
    /\ rle = TRUE
    /\ memory_size \in (IF ">" \in Range(source) THEN 1..MaxMem ELSE {1})
    /\ input \in (IF "," \in Range(source) THEN Stdins ELSE {StdinString(<<>>)})
    /\ program = NoProgram
    /\ step_ip = 0
    /\ step = None
    /\ vm = NoVM
    /\ PlainIdle
    /\ JitIdle
    /\ AuxIdle

\* VM::new with rle = true, and with rle = false, on the same source, input
\* and tape size
RleNewCall ==
    /\ phase = "new"
    /\ program' = ProgramNew(source, TRUE)
    /\ program_plain' = ProgramNew(source, FALSE)
    /\ IF program'.ok /\ program_plain'.ok
       THEN /\ vm' = VMNew(input, memory_size)
            /\ vm_plain' = VMNew(input, memory_size)
            /\ phase' = "lockstep"
       ELSE /\ UNCHANGED <<vm, vm_plain>>
            /\ phase' = "failed"
    /\ UNCHANGED <<source, rle, step_ip, step,
                   memory_size, input, lag, jitVars, auxVars>>

\* One iteration of run() of the folded VM.
StepFolded ==
    /\ phase = "lockstep"
    /\ lag = 0
    /\ ~Over(vm)
    /\ CurrentOp(program, vm).op = "Output" => Len(vm.stdout) < MaxOut
    /\ vm' = execute_step(program, vm)
    /\ lag' = count(CurrentOp(program, vm))
    /\ UNCHANGED <<phase, parseVars, memory_size, input,
                   program_plain, vm_plain, jitVars, auxVars>>

\* One iteration of run() of the plain VM.
StepPlain ==
    /\ phase = "lockstep"
    /\ lag > 0
    /\ ~Over(vm_plain)
    /\ vm_plain' = execute_step(program_plain, vm_plain)
    /\ lag' = lag - 1
    /\ UNCHANGED <<phase, parseVars, vmVars, program_plain, jitVars, auxVars>>

NextRle == RleNewCall \/ StepFolded \/ StepPlain

SpecRle == InitRle /\ [][NextRle]_vars

(***************************************************************************)
(* The JIT driver beside the interpreter: JIT::new builds the program, the *)
(* AST and the code, JIT::run calls the code on a fresh tape; the          *)
(* interpreter is then run on the same program, input and tape size.       *)
(* SpecJit runs short sources, SpecCopy the copy loops, SpecClear the      *)
(* clear loops.                                                            *)
(***************************************************************************)
Count(seq, c) == Cardinality({i \in DOMAIN seq : seq[i] = c})

JitScenarios ==
    { <<"[", "-", "<", "+", ">", "]">>, <<"[", "-", ">", "+", "<", "]">>,
      <<"+", "[", "-", ">", "+", "<", "]">>, <<"+", "+", "[", "-", "-", "]">>,
      <<"+", "[", "-", "-", "]">>, <<"+", "[", "-", "-", "]", ".">> }

JitSources == SeqsUpTo(CommandChars, MaxJitLen) \cup JitScenarios

JitIdleRest ==
    /\ phase = "new"
    /\ program = NoProgram
    /\ step_ip = 0
    /\ step = None
    /\ vm = NoVM
    /\ PlainIdle
    /\ JitIdle
    /\ AuxIdle

InitJit ==
    /\ source \in JitSources
    /\ rle \in BOOLEAN
    /\ memory_size \in (IF ">" \in Range(source) THEN 1..MaxMem ELSE {1})
    /\ input \in (IF "," \in Range(source)
                  THEN {StdinConsole(d) : d \in SeqsUpTo(ConsoleBytes, MaxIn)}
                  ELSE {StdinConsole(<<>>)})
    /\ JitIdleRest

\* The four loop bodies the optimiser turns into AddTo, for a distance k.
CopyBody(shape, k) ==
    CASE shape = 1 -> <<"-">> \o Repeat(">", k) \o <<"+">> \o Repeat("<", k)
      [] shape = 2 -> <<"-">> \o Repeat("<", k) \o <<"+">> \o Repeat(">", k)
      [] shape = 3 -> Repeat("<", k) \o <<"+">> \o Repeat(">", k) \o <<"-">>
      [] shape = 4 -> Repeat(">", k) \o <<"+">> \o Repeat("<", k) \o <<"-">>

\* A source that puts a in the current cell and b in the cell the loop adds
\* to, and then runs the loop; with a bystander, it first puts 1 in cell k + 1.
CopySource(shape, k, a, b, bystander) ==
    ( IF bystander
      THEN Repeat(">", k + 1) \o <<"+">> \o Repeat("<", k + 1)
      ELSE <<>> ) \o
    ( IF shape \in {1, 4}
      THEN Repeat("+", a) \o Repeat(">", k) \o Repeat("+", b) \o Repeat("<", k)
      ELSE Repeat(">", k) \o Repeat("+", a) \o Repeat("<", k) \o Repeat("+", b)
               \o Repeat(">", k) )
        \o <<"[">> \o CopyBody(shape, k) \o <<"]">>

CopyValues == {0, 1, 2, CellMod - 1}
TargetValues == {0, 1, CellMod - 1}

InitCopy ==
    /\ \E shape \in 1..4, k \in 1..MaxK, a \in CopyValues, b \in TargetValues :
          /\ \/ source = CopySource(shape, k, a, b, FALSE) /\ memory_size = k + 1
             \/ source = CopySource(shape, k, a, b, TRUE) /\ memory_size = k + 2
          \* a run of 255 commands is given to the JIT folded
          /\ rle \in (IF CellMod - 1 \in {a, b} THEN {TRUE} ELSE BOOLEAN)
    /\ input = StdinConsole(<<>>)
    /\ JitIdleRest

\* A source that puts v in the current cell and runs a loop whose body is n
\* times the same value command, folded into one opcode.
ClearSource(v, c, n) == Repeat("+", v) \o <<"[">> \o Repeat(c, n) \o <<"]">>

ClearValues == (0..MaxClearVal) \cup {CellMod - 1}

InitClear ==
    /\ source \in {ClearSource(v, c, n) : v \in ClearValues, c \in {"+", "-"},
                                          n \in 1..MaxFold}
    /\ rle = TRUE
    /\ memory_size = 1
    /\ input = StdinConsole(<<>>)
    /\ JitIdleRest

\* JIT::new and the start of JIT::run, and VM::new for the interpreter
JitNewCall ==
    /\ phase = "new"
    /\ program' = ProgramNew(source, rle)
    /\ IF program'.ok
       THEN /\ ast' = ASTNew(program')
            /\ calls' = generate_code(ast')
            /\ jit' = JitStart(input.data, memory_size)
            /\ vm' = VMNew(input, memory_size)
            /\ phase' = "jit"
       ELSE /\ UNCHANGED <<ast, calls, jit, vm>>
            /\ phase' = "failed"
    /\ UNCHANGED <<source, rle, step_ip, step,
                   memory_size, input, plainVars, auxVars>>

\* The emitted code of one emitter call runs.
JitStep ==
    /\ phase = "jit"
    /\ calls[jit.pc + 1].name = "output" => Len(jit.stdout) < MaxOut
    /\ jit' \in JitExec(calls, jit)
    /\ phase' = IF JitOver(jit') THEN "running" ELSE "jit"
    /\ UNCHANGED <<parseVars, vmVars, plainVars, ast, calls, auxVars>>

NextJit == JitNewCall \/ JitStep \/ RunStep

\* Once called, the emitted code and the loop of run() keep going until they
\* end.
SpecJit == InitJit /\ [][NextJit]_vars /\ WF_vars(JitStep \/ RunStep)

SpecCopy == InitCopy /\ [][NextJit]_vars /\ WF_vars(JitStep \/ RunStep)

SpecClear == InitClear /\ [][NextJit]_vars /\ WF_vars(JitStep \/ RunStep)

\* SpecAst: the copy loops to the right and to the left, and the source
\* "+>+<[->>+<<]", through JIT::new and the two runs.
CopyExample == <<"+", ">", "+", "<", "[", "-", ">", ">", "+", "<", "<", "]">>

InitAst ==
    /\ \/ \E shape \in 1..2, k \in 1..MaxK, a \in 0..1, b \in 0..1 :
             source = CopySource(shape, k, a, b, FALSE) /\ memory_size = k + 1
       \/ source = CopyExample /\ memory_size = 3
    /\ rle \in BOOLEAN
    /\ input = StdinConsole(<<>>)
    /\ JitIdleRest

SpecAst == InitAst /\ [][NextJit]_vars /\ WF_vars(JitStep \/ RunStep)

\* SpecOpt: loops of every short body of value and pointer commands, and
\* loops with unequal moves, folded values, inner loops and I/O, through
\* JIT::new and the two runs.
MaxBodyLen == 4

Loop(body) == <<"[">> \o body \o <<"]">>

OptScenarios ==
    { <<"+">> \o Loop(<<"-">>),
      Loop(<<"-", ">", ">", "+", "<">>),
      Loop(<<"-", "-", ">", "+", "<">>),
      Loop(<<"-", ">", "+", "+", "<">>),
      Loop(Loop(<<"-">>) \o <<">", ">", "+", "<">>),
      Loop(Loop(<<"-", ">", "+", "<">>)),
      Loop(Loop(<<"-">>)),
      Loop(<<"-", ">", "+", "<", ".">>),
      Loop(<<".">> \o Loop(<<",">>)) \o <<".">>,
      <<",">> \o Loop(<<".">> \o Loop(<<"-">>) \o <<">">>) \o Loop(Loop(<<",">>)),
      <<"+">> \o Loop(Loop(<<"-", ">">> \o Loop(<<".">>) \o <<"+", "<">>)) }

OptSources ==
    {Loop(body) : body \in SeqsUpTo({"+", "-", "<", ">"}, MaxBodyLen)}
        \cup OptScenarios

InitOpt ==
    /\ source \in OptSources
    /\ rle \in BOOLEAN
    /\ memory_size = MaxMem
    /\ input \in (IF "," \in Range(source)
                  THEN {StdinConsole(d) : d \in SeqsUpTo(ConsoleBytes, MaxIn)}
                  ELSE {StdinConsole(<<>>)})
    /\ JitIdleRest

SpecOpt == InitOpt /\ [][NextJit]_vars /\ WF_vars(JitStep \/ RunStep)

(***************************************************************************)
(* The Debugger: a VM on the console, and a BTreeSet of breakpoints.  The  *)
(* set is kept as the sequence its iterator yields.  SpecDebug steps and   *)
(* runs programs under breakpoints, SpecBreakpoints edits and lists the    *)
(* set.                                                                    *)
(***************************************************************************)
MaxBp == 3
MaxDebugLen == 1
BpIndices == 0 .. MaxBp

\* An insert that puts a new value last.
BTreeInsertLast(set, value) ==
    IF value \in Range(set) THEN set ELSE Append(set, value)
\* BTreeSet::insert
BTreeInsert(set, value) ==
    IF value \in Range(set) THEN set
    ELSE SelectSeq(set, LAMBDA x : x < value) \o <<value>>
             \o SelectSeq(set, LAMBDA x : x > value)
\* BTreeSet::remove
BTreeRemove(set, value) == SelectSeq(set, LAMBDA x : x # value)
\* BTreeSet::contains
BTreeContains(set, value) == value \in Range(set)

\* One iteration of a loop that looks at the breakpoints before it steps.
RunIterationCheckFirst(p, v, bps) ==
    IF BTreeContains(bps, v.ip) THEN [vm |-> v, ret |-> "Ok(false)"]
    ELSE LET w == execute_step(p, v)
         IN  [vm |-> w, ret |-> IF w.result = "Ok(false)" THEN "continue" ELSE w.result]
\* One iteration of the loop of Debugger::run: `if self.step()? { break; }`,
\* then `if self.breakpoints.contains(&ip) { return Ok(false); }`.  ret is
\* what run() returns, or "continue" when the loop goes round.
RunIteration(p, v, bps) ==
    LET w == execute_step(p, v)
    IN  [vm |-> w,
         ret |-> IF w.result \in EvalErrors \cup {"panic"} THEN w.result
                 ELSE IF w.result = "Ok(true)" THEN "Ok(true)"
                 ELSE IF BTreeContains(bps, w.ip) THEN "Ok(false)"
                 ELSE "continue"]

DebugScenarios ==
    { <<"+", "[", "-", "]", "+">>, <<"+", ">", "+", "<", "<">>,
      <<"+", "+", "[", ">", ".", "+", "<", "-", "]">>, <<",", ".", ",", ".">> }
DebugSources == SeqsUpTo(CommandChars, MaxDebugLen) \cup DebugScenarios

NoLast == [i \in BpIndices |-> FALSE]

InitDebug ==
    /\ phase = "new"
    /\ source \in DebugSources
    /\ rle \in BOOLEAN
    /\ memory_size \in (IF ">" \in Range(source) THEN 1..MaxMem ELSE {1})
    \* the source that reads twice is also given two bytes
    /\ input \in (IF "," \in Range(source)
                  THEN {StdinConsole(d) : d \in SeqsUpTo(ConsoleBytes, MaxIn)}
                         \cup (IF Count(source, ",") > 1
                               THEN {StdinConsole(<<65, Newline>>)} ELSE {})
                  ELSE {StdinConsole(<<>>)})
    /\ program = NoProgram
    /\ step_ip = 0
    /\ step = None
    /\ vm = NoVM
    /\ PlainIdle
    /\ JitIdle
    /\ AuxIdle

\* Debugger::new
DebuggerNew ==
    /\ phase = "new"
    /\ program' = ProgramNew(source, rle)
    /\ IF program'.ok
       THEN /\ vm' = VMNew(input, memory_size)
            /\ breakpoints' = <<>>
            /\ bp_last' = NoLast
            /\ phase' = "debug"
       ELSE /\ UNCHANGED <<vm, breakpoints, bp_last>>
            /\ phase' = "failed"
    /\ UNCHANGED <<source, rle, step_ip, step, memory_size, input, plainVars,
                   jitVars, ioVars, listed, shown, dbg_pc, dbg_call, returned,
                   inspected, profVars>>

\* Debugger::breakpoints_add(value)
BreakpointsAdd ==
    /\ phase = "debug"
    /\ dbg_pc = "idle"
    \* indices up to the end of the code
    /\ \E value \in {i \in BpIndices : i <= Len(program.code)} :
          /\ breakpoints' = BTreeInsert(breakpoints, value)
          /\ bp_last' = [bp_last EXCEPT ![value] = TRUE]
    /\ dbg_call' = "breakpoints_add"
    /\ UNCHANGED <<phase, parseVars, vmVars, plainVars, jitVars, ioVars,
                   listed, shown, dbg_pc, returned, inspected,
                   profVars>>

\* Debugger::breakpoints_delete(value)
BreakpointsDelete ==
    /\ phase = "debug"
    /\ dbg_pc = "idle"
    /\ \E value \in BpIndices :
          /\ breakpoints' = BTreeRemove(breakpoints, value)
          /\ bp_last' = [bp_last EXCEPT ![value] = FALSE]
    /\ dbg_call' = "breakpoints_delete"
    /\ UNCHANGED <<phase, parseVars, vmVars, plainVars, jitVars, ioVars,
                   listed, shown, dbg_pc, returned, inspected,
                   profVars>>

\* Debugger::breakpoints_list: self.breakpoints.iter().copied().collect()
BreakpointsList ==
    /\ phase = "debug"
    /\ dbg_pc = "idle"
    /\ listed' = breakpoints
    /\ dbg_call' = "breakpoints_list"
    /\ UNCHANGED <<phase, parseVars, vmVars, plainVars, jitVars, ioVars,
                   breakpoints, shown, bp_last, dbg_pc, returned, inspected,
                   profVars>>

\* Debugger::step, as handle_step calls it
DebugStep ==
    /\ phase = "debug"
    /\ dbg_pc = "idle"
    /\ CurrentOp(program, vm).op = "Output" => Len(vm.stdout) < MaxOut
    /\ vm' = execute_step(program, vm)
    /\ returned' = vm'.result
    /\ dbg_call' = "step"
    /\ UNCHANGED <<phase, parseVars, memory_size, input, plainVars, jitVars,
                   ioVars, breakpoints, listed, shown, bp_last, dbg_pc, inspected,
                   profVars>>

\* Debugger::run, as handle_run calls it: its first iteration when the
\* debugger is idle, a further one when it is in the loop.
DebugRun ==
    /\ phase = "debug"
    /\ CurrentOp(program, vm).op = "Output" => Len(vm.stdout) < MaxOut
    /\ LET it == RunIteration(program, vm, breakpoints)
       IN  /\ vm' = it.vm
           /\ IF it.ret = "continue"
              THEN dbg_pc' = "run" /\ returned' = "none"
              ELSE dbg_pc' = "idle" /\ returned' = it.ret
    /\ dbg_call' = "run"
    /\ UNCHANGED <<phase, parseVars, memory_size, input, plainVars, jitVars,
                   ioVars, breakpoints, listed, shown, bp_last, inspected,
                   profVars>>

\* StdoutConsole::to_string / StdoutString::to_string: the characters
\* written, collected in order
to_string(stdout) == [i \in 1..Len(stdout) |-> stdout[i]]

\* Debugger::output: self.vm.stdout().to_string()
DebugOutput ==
    /\ phase = "debug"
    /\ dbg_pc = "idle"
    /\ shown' = to_string(vm.stdout)
    /\ dbg_call' = "output"
    /\ UNCHANGED <<phase, parseVars, vmVars, plainVars, jitVars, ioVars,
                   breakpoints, listed, bp_last, dbg_pc, returned, inspected,
                   profVars>>

NextDebug ==
    \/ DebuggerNew
    \/ BreakpointsAdd
    \/ BreakpointsDelete
    \/ DebugStep
    \/ DebugRun
    \/ DebugOutput

SpecDebug == InitDebug /\ [][NextDebug]_vars

\* A debugger, freshly made, on a program as long as the largest index.
InitBreakpoints ==
    /\ phase = "debug"
    /\ source = Repeat("+", MaxBp)
    /\ rle = FALSE
    /\ memory_size = 1
    /\ input = StdinConsole(<<>>)
    /\ program = ProgramNew(source, rle)
    /\ step_ip = 0
    /\ step = None
    /\ vm = VMNew(input, memory_size)
    /\ PlainIdle
    /\ JitIdle
    /\ IoIdle
    /\ ProfIdle
    /\ breakpoints = <<>>
    /\ listed = <<>>
    /\ shown = <<>>
    /\ bp_last = NoLast
    /\ dbg_pc = "idle"
    /\ dbg_call = "none"
    /\ returned = "none"
    /\ inspected = NoInspection

NextBreakpoints == BreakpointsAdd \/ BreakpointsDelete \/ BreakpointsList

SpecBreakpoints == InitBreakpoints /\ [][NextBreakpoints]_vars

(***************************************************************************)
(* The Debugger's inspections (vm/debugger.rs) and Program::listing        *)
(* (vm/program.rs).  A string that is built piece by piece is the sequence *)
(* of its pieces: a dump is its rows, a row its address and its hex and    *)
(* ASCII columns; a listing is its lines, a line its index, the glyphs of  *)
(* its gutter and its opcode.                                              *)
(***************************************************************************)
\* Debugger::registers
registers(v) == <<v.ip, v.data_ptr>>

\* A memory() that also answers for the index after the last cell.
memoryPastEnd(v, index) ==
    IF index < Len(v.memory) THEN Some(v.memory[index + 1])
    ELSE IF index = Len(v.memory) THEN Some(0) ELSE None
\* Debugger::memory
memory(v, index) == IF index < Len(v.memory) THEN Some(v.memory[index + 1]) ELSE None

ElementCount == 16
\* c.is_ascii_alphanumeric() || c.is_ascii_punctuation()
FirstPrintable == 33
LastPrintable == 126
Dot == 46

Blank == [blank |-> TRUE, value |-> 0]
Shown(value) == [blank |-> FALSE, value |-> value]

\* The hex column and the ASCII column pushed for one address: blanks outside
\* [start, start + len), the cell's value inside it, nothing when memory()
\* has no cell for the address.
HexColumn(v, start, len, address) ==
    IF address < start \/ start + len <= address THEN <<Blank>>
    ELSE LET value == memory(v, address)
         IN  IF IsSome(value) THEN <<Shown(Unwrap(value))>> ELSE <<>>
AsciiColumn(v, start, len, address) ==
    IF address < start \/ start + len <= address THEN <<Blank>>
    ELSE LET value == memory(v, address)
         IN  IF IsSome(value)
             THEN LET c == Unwrap(value)
                  IN  <<Shown(IF c >= FirstPrintable /\ c <= LastPrintable
                              THEN c ELSE Dot)>>
             ELSE <<>>

\* The for loop over the sixteen addresses of one row; `column` names the
\* string being built ("hex" or "ascii").
RECURSIVE DumpColumns(_, _, _, _, _, _)
DumpColumns(column, v, start, len, aligned, offset) ==
    IF offset >= ElementCount THEN <<>>
    ELSE (IF column = "hex" THEN HexColumn(v, start, len, aligned + offset)
          ELSE AsciiColumn(v, start, len, aligned + offset))
            \o DumpColumns(column, v, start, len, aligned, offset + 1)

DumpRow(v, start, len, aligned) ==
    [address |-> aligned,
     hex |-> DumpColumns("hex", v, start, len, aligned, 0),
     ascii |-> DumpColumns("ascii", v, start, len, aligned, 0)]

\* The while loop of memory_dump, from `aligned` on.
RECURSIVE DumpWhile(_, _, _, _)
DumpWhile(v, start, len, aligned) ==
    IF aligned < start + len
    THEN <<DumpRow(v, start, len, aligned)>>
            \o DumpWhile(v, start, len, aligned + ElementCount)
    ELSE <<>>

\* Debugger::memory_dump: start & (usize::MAX - 15) clears the low four bits
memory_dump(v, start, len) == DumpWhile(v, start, len, start - (start % ElementCount))

\* The first pass of Program::listing: the indent of every opcode and the
\* largest of them.
RECURSIVE IndentFold(_, _, _)
IndentFold(code, n, st) ==
    IF n > Len(code) THEN st
    ELSE LET op == code[n].op
         IN  IndentFold(code, n + 1,
                CASE op = "LoopStart" ->
                        [max_indent |-> st.max_indent + 1,
                         gutter_size |-> IF st.max_indent + 1 > st.gutter_size
                                         THEN st.max_indent + 1 ELSE st.gutter_size,
                         indents |-> Append(st.indents, st.max_indent + 1)]
                  [] op = "LoopEnd" ->
                        [st EXCEPT !.max_indent = @ - 1,
                                   !.indents = Append(@, st.max_indent)]
                  [] OTHER -> [st EXCEPT !.indents = Append(@, st.max_indent)])

\* The gutter of a bracket line without the dashes that fill it.
BracketGutterShort(opcode, indent, gutter_size) ==
    Repeat("pipe", indent - 1)
        \o <<IF opcode.op = "LoopStart" THEN "corner_down" ELSE "corner_up", "dash">>
        \o <<"arrow">>
\* The gutter of a line whose index is a key of the jump table.
BracketGutter(opcode, indent, gutter_size) ==
    Repeat("pipe", indent - 1)
        \o <<IF opcode.op = "LoopStart" THEN "corner_down" ELSE "corner_up", "dash">>
        \o Repeat("dash", gutter_size - 2 - indent)
        \o <<"arrow">>
\* The gutter of every other line.
PlainGutter(indent, gutter_size) ==
    Repeat("pipe", indent) \o Repeat("space", gutter_size - indent)

\* A range that leaves the line of `end_line` out.
InRangeExclusive(index, start, end) ==
    /\ IsSome(start) => index >= Unwrap(start)
    /\ IsSome(end) => index < Unwrap(end)
\* The range selection of the second pass.
InRange(index, start, end) ==
    /\ ~(IsSome(start) /\ index < Unwrap(start))
    /\ ~(IsSome(end) /\ Unwrap(end) < index)

\* Program::listing
listing(p, start, end) ==
    LET st == IndentFold(p.code, 1, [max_indent |-> 0, gutter_size |-> 0, indents |-> <<>>])
        gutter_size == st.gutter_size + 2
        Line(index) ==
            [index |-> index,
             gutter |-> IF index \in DOMAIN p.jump_table
                        THEN BracketGutter(p.code[index + 1], st.indents[index + 1],
                                           gutter_size)
                        ELSE PlainGutter(st.indents[index + 1], gutter_size),
             glyph |-> to_char(p.code[index + 1]),
             opcode |-> p.code[index + 1]]
        RECURSIVE Lines(_)
        Lines(index) ==
            IF index >= Len(p.code) THEN <<>>
            ELSE (IF InRange(index, start, end) THEN <<Line(index)>> ELSE <<>>)
                    \o Lines(index + 1)
    IN  Lines(0)

Border == 3
\* Debugger::program_list
program_list(p, v, index) ==
    LET focus == IF IsSome(index) THEN Unwrap(index) ELSE v.ip
        start == IF focus < Border THEN 0 ELSE focus - Border
        end == IF Len(p.code) < focus + Border THEN Len(p.code) ELSE focus + Border
    IN  listing(p, Some(start), Some(end))

\* The arguments the inspections are called with.
MaxFocus == 16
MemoryIndices == 0..MaxMem
\* Ranges inside the tape, empty, across two rows and past the tape.
DumpRanges == { <<0, 1>>, <<1, 0>>, <<ElementCount - 1, 2>>, <<1, MaxMem>> }
FocusArgs == {None} \cup {Some(i) : i \in 0..MaxFocus}

Inspection(op, args, ret) == [op |-> op, args |-> args, ret |-> ret]

\* Debugger::registers()
DebugRegisters ==
    /\ phase = "debug"
    /\ dbg_pc = "idle"
    /\ inspected' = Inspection("registers", <<>>, registers(vm))
    /\ dbg_call' = "registers"
    /\ UNCHANGED <<phase, parseVars, vmVars, plainVars, jitVars, ioVars,
                   breakpoints, listed, shown, bp_last, dbg_pc, returned, profVars>>

\* Debugger::memory(index)
DebugMemory ==
    /\ phase = "debug"
    /\ dbg_pc = "idle"
    /\ \E index \in MemoryIndices :
          inspected' = Inspection("memory", <<index>>, memory(vm, index))
    /\ dbg_call' = "memory"
    /\ UNCHANGED <<phase, parseVars, vmVars, plainVars, jitVars, ioVars,
                   breakpoints, listed, shown, bp_last, dbg_pc, returned, profVars>>

\* Debugger::memory_dump(start, len)
DebugMemoryDump ==
    /\ phase = "debug"
    /\ dbg_pc = "idle"
    /\ \E range \in DumpRanges :
          inspected' = Inspection("memory_dump", range,
                                  memory_dump(vm, range[1], range[2]))
    /\ dbg_call' = "memory_dump"
    /\ UNCHANGED <<phase, parseVars, vmVars, plainVars, jitVars, ioVars,
                   breakpoints, listed, shown, bp_last, dbg_pc, returned, profVars>>

\* Debugger::program_list(index), for an index up to a window past the code
DebugProgramList ==
    /\ phase = "debug"
    /\ dbg_pc = "idle"
    /\ \E index \in FocusArgs :
          /\ IsSome(index) => Unwrap(index) <= Len(program.code) + Border + 1
          /\ inspected' = Inspection("program_list", index,
                                     program_list(program, vm, index))
    /\ dbg_call' = "program_list"
    /\ UNCHANGED <<phase, parseVars, vmVars, plainVars, jitVars, ioVars,
                   breakpoints, listed, shown, bp_last, dbg_pc, returned, profVars>>

\* SpecInspect: every method of the Debugger but run(), in any order, on
\* programs of one opcode.
InspectSources == { <<".">>, <<">">>, <<",">> }

InitInspect ==
    /\ phase = "new"
    /\ source \in InspectSources
    /\ rle = FALSE
    /\ memory_size \in (IF ">" \in Range(source) THEN {MaxMem} ELSE {1})
    /\ input = (IF "," \in Range(source) THEN StdinConsole(<<65, Newline>>)
                ELSE StdinConsole(<<>>))
    /\ program = NoProgram
    /\ step_ip = 0
    /\ step = None
    /\ vm = NoVM
    /\ PlainIdle
    /\ JitIdle
    /\ AuxIdle

NextInspect ==
    \/ DebuggerNew
    \/ DebugStep
    \/ DebugOutput
    \/ BreakpointsAdd
    \/ BreakpointsDelete
    \/ BreakpointsList
    \/ DebugRegisters
    \/ DebugMemory
    \/ DebugMemoryDump
    \/ DebugProgramList

SpecInspect == InitInspect /\ [][NextInspect]_vars

\* SpecList: steps and listings of the Debugger on programs with loops: every
\* source of brackets and outputs up to MaxListLen, and a counting loop with
\* a loop inside.
MaxListLen == 5

NestedExample ==
    <<"+", "+", "[", ">", "+", "[", "-", "]", "<", "-", "]", ".">>

ListSources == SeqsUpTo({"[", "]", "."}, MaxListLen) \cup {NestedExample}

InitList ==
    /\ phase = "new"
    /\ source \in ListSources
    /\ rle \in BOOLEAN
    /\ memory_size = MaxMem
    /\ input = StdinConsole(<<>>)
    /\ program = NoProgram
    /\ step_ip = 0
    /\ step = None
    /\ vm = NoVM
    /\ PlainIdle
    /\ JitIdle
    /\ AuxIdle

NextList == DebuggerNew \/ DebugStep \/ DebugProgramList

SpecList == InitList /\ [][NextList]_vars

(***************************************************************************)
(* The Profiler: VM::enable_profiler and VM<Profiler>::run (SpecProfile).  *)
(***************************************************************************)
MaxProfLen == 3

\* The fold of enable_profiler: from vec![0], push the last element plus the
\* count of each opcode.
RECURSIVE IpMapFold(_, _, _)
IpMapFold(code, n, acc) ==
    IF n > Len(code) THEN acc
    ELSE IpMapFold(code, n + 1, Append(acc, Last(acc) + count(code[n])))
IpMap(code) == IpMapFold(code, 1, <<0>>)

\* vec![0, code_len]: the vector of the two elements 0 and code_len
ProfileData(code_len) == <<0, code_len>>

\* (0..count).for_each(|index| profile_data[uncompressed_ip + index] += 1):
\* the counters inside the vector are incremented until an index is outside
\* it, which panics.
IncrementCounters(data, uncompressed_ip, n) ==
    [data |-> [i \in DOMAIN data |->
                  IF i - 1 \in uncompressed_ip .. uncompressed_ip + n - 1
                  THEN data[i] + 1 ELSE data[i]],
     panic |-> n > 0 /\ uncompressed_ip + n > Len(data)]

ProfileScenarios ==
    { <<"+", "[", "-", "]">>, <<",", "[", ".", ",", "]">>,
      <<"+", "+", "+", "+", "[", "-", "-", "]">> }
ProfileSources == SeqsUpTo(CommandChars, MaxProfLen) \cup ProfileScenarios

InitProfile ==
    /\ phase = "new"
    /\ source \in ProfileSources
    /\ rle \in BOOLEAN
    /\ memory_size \in (IF ">" \in Range(source) THEN 1..MaxMem ELSE {1})
    /\ input \in (IF "," \in Range(source) THEN Stdins ELSE {StdinString(<<>>)})
    /\ program = NoProgram
    /\ step_ip = 0
    /\ step = None
    /\ vm = NoVM
    /\ PlainIdle
    /\ JitIdle
    /\ AuxIdle

\* VM::new followed by enable_profiler, as `run --profile` does
EnableProfiler ==
    /\ phase = "new"
    /\ program' = ProgramNew(source, rle)
    /\ IF program'.ok
       THEN /\ vm' = VMNew(input, memory_size)
            /\ ip_map' = IpMap(program'.code)
            /\ profile_data' = ProfileData(Last(ip_map'))
            /\ executed' = [i \in 1..Len(program'.code) |-> 0]
            /\ phase' = "profiling"
       ELSE /\ UNCHANGED <<vm, profVars>>
            /\ phase' = "failed"
    /\ UNCHANGED <<source, rle, step_ip, step, memory_size, input, plainVars,
                   jitVars, ioVars, dbgVars>>

\* One iteration of the loop of VM<Profiler>::run: unwrap the step, count
\* it, execute it.
ProfileStep ==
    /\ phase = "profiling"
    /\ CurrentOp(program, vm).op = "Output" => Len(vm.stdout) < MaxOut
    /\ LET step_option == get_step(program, vm.ip)
       IN  IF step_option = None
           THEN /\ vm' = Fail(vm, "panic")
                /\ phase' = "profiled"
                /\ UNCHANGED profVars
           ELSE LET inc == IncrementCounters(profile_data, ip_map[vm.ip + 1],
                                             count(Unwrap(step_option).opcode))
                IN  /\ profile_data' = inc.data
                    /\ executed' = [executed EXCEPT ![vm.ip + 1] = @ + 1]
                    /\ vm' = IF inc.panic THEN Fail(vm, "panic")
                             ELSE execute_step(program, vm)
                    /\ phase' = IF vm'.result = "Ok(false)" THEN "profiling"
                                ELSE "profiled"
                    /\ UNCHANGED ip_map
    /\ UNCHANGED <<parseVars, memory_size, input, plainVars, jitVars,
                   ioVars, dbgVars>>

NextProfile == EnableProfiler \/ ProfileStep

SpecProfile == InitProfile /\ [][NextProfile]_vars

(***************************************************************************)
(* Properties of Program::new and Program::get_step.                       *)
(***************************************************************************)
OpAt(p, i) == p.code[i + 1].op
LoopStarts(p) == {i \in 0..Len(p.code) - 1 : OpAt(p, i) = "LoopStart"}
LoopEnds(p) == {i \in 0..Len(p.code) - 1 : OpAt(p, i) = "LoopEnd"}

\* C5: when Program::new succeeds, the keys of the jump table are exactly the
\* indices of the loop brackets, the table is an involution, every LoopStart
\* maps to a later LoopEnd, and two matched pairs never cross.
C5_JumpTableWellFormed ==
    program.ok =>
        LET jt == program.jump_table
        IN  /\ DOMAIN jt = LoopStarts(program) \cup LoopEnds(program)
            /\ \A i \in DOMAIN jt : jt[i] \in DOMAIN jt /\ jt[jt[i]] = i
            /\ \A s \in LoopStarts(program) : jt[s] > s /\ jt[s] \in LoopEnds(program)
            /\ \A s1, s2 \in LoopStarts(program) :
                  s1 < s2 => (jt[s1] < s2 \/ jt[s2] < jt[s1])

\* A constructed program with a loop nested in a loop and a loop after a loop.
C5_Witness ==
    /\ phase = "ready"
    /\ program.ok
    /\ \E s1, s2 \in LoopStarts(program) :
          s1 < s2 /\ program.jump_table[s2] < program.jump_table[s1]
    /\ \E s1, s2 \in LoopStarts(program) : program.jump_table[s1] < s2

\* Bracket balance of the source text, by counting.
Opens(s, n) == Cardinality({j \in 1..n : s[j] = "["})
Closes(s, n) == Cardinality({j \in 1..n : s[j] = "]"})
Balanced(s) ==
    /\ \A n \in 0..Len(s) : Closes(s, n) <= Opens(s, n)
    /\ Closes(s, Len(s)) = Opens(s, Len(s))

\* The same counts on an opcode stream, over the opcodes at indices < n.
OpensBefore(code, n) == Cardinality({j \in 1..n : code[j].op = "LoopStart"})
ClosesBefore(code, n) == Cardinality({j \in 1..n : code[j].op = "LoopEnd"})
\* The LoopEnds at which more brackets have been closed than opened.
UnmatchedCloses(code) ==
    {i \in 0..Len(code) - 1 :
        code[i + 1].op = "LoopEnd" /\ ClosesBefore(code, i + 1) > OpensBefore(code, i + 1)}
\* The LoopStarts that no later LoopEnd closes.
NeverClosed(code) ==
    {i \in 0..Len(code) - 1 :
        /\ code[i + 1].op = "LoopStart"
        /\ \A e \in i + 1..Len(code) - 1 :
              OpensBefore(code, e + 1) - OpensBefore(code, i)
                  > ClosesBefore(code, e + 1) - ClosesBefore(code, i)}
SetMin(S) == CHOOSE x \in S : \A y \in S : x <= y

\* C6: Program::new fails exactly on sources with unbalanced brackets; the
\* index it reports is that of the first LoopEnd with nothing open, or else
\* that of a LoopStart that is never closed.
C6_MissingBracketIndex ==
    phase # "new" =>
        LET code == OpcodeStream(source, rle)
        IN  /\ program.ok <=> Balanced(source)
            /\ ~program.ok =>
                  IF UnmatchedCloses(code) # {}
                  THEN program.index = SetMin(UnmatchedCloses(code))
                  ELSE program.index \in NeverClosed(code)
            /\ source = <<"[","[","[","]","]">> => ~program.ok /\ program.index = 0
            /\ source = <<"[","[","[","]","]","]","]">> => ~program.ok /\ program.index = 6

\* Construction failed on an open bracket that is never closed, outside a closed pair.
C6_Witness ==
    /\ phase = "failed"
    /\ UnmatchedCloses(OpcodeStream(source, rle)) = {}
    /\ Len(OpcodeStream(source, rle)) > program.index + 2

\* Construction failed at a close bracket that follows a matched pair.
C6_WitnessClose ==
    /\ phase = "failed"
    /\ UnmatchedCloses(OpcodeStream(source, rle)) # {}
    /\ program.index >= 2

IfInside(p, x) == IF x < Len(p.code) THEN Some(x) ELSE None

\* C7: get_step(i) is absent iff i is past the end; a non-loop opcode has the
\* next index (if any) as then_ip and no else_ip; both brackets of a matched
\* pair (s, e) have then_ip = s + 1 and else_ip = e + 1 (if inside the code).
C7_GetStep ==
    phase = "stepped" =>
        LET L == Len(program.code)
            i == step_ip
        IN  /\ step = None <=> i >= L
            /\ i < L =>
                  /\ Unwrap(step).opcode = program.code[i + 1]
                  /\ i \notin DOMAIN program.jump_table =>
                        /\ Unwrap(step).then_ip = IfInside(program, i + 1)
                        /\ Unwrap(step).else_ip = None
                  /\ \A s \in LoopStarts(program) :
                        i \in {s, program.jump_table[s]} =>
                            /\ Unwrap(step).then_ip = Some(s + 1)
                            /\ Unwrap(step).else_ip =
                                  IfInside(program, program.jump_table[s] + 1)

\* get_step on the LoopEnd at 48 of the hello-world program, as in the test.
C7_Witness ==
    /\ phase = "stepped"
    /\ source = HelloWorld
    /\ step_ip = 48
    /\ step = Some(Step(OpCode("LoopEnd", 1), Some(9), Some(49)))

(***************************************************************************)
(* Properties of single interpreter steps (Spec).                          *)
(***************************************************************************)
\* An execute_step of the run loop is taken on the opcode `op`.
Executes(op) == phase = "running" /\ CurrentOp(program, vm).op = op /\ vm' # vm
FoldCount == CurrentOp(program, vm).count
OtherCellsKept ==
    /\ Len(vm'.memory) = Len(vm.memory)
    /\ \A i \in 1..Len(vm.memory) : i # vm.data_ptr + 1 => vm'.memory[i] = vm.memory[i]

\* C8: a step of IncValue(n) leaves (cell + n) mod 256 in the current cell and
\* a step of DecValue(n) leaves (cell - n) mod 256, for every n including
\* n >= 256; 256 '+' on a zero cell give 0 and one '-' on a zero cell gives 255.
C8_ValueStep ==
    [][ /\ Executes("IncValue") =>
              Cell(vm)' = (Cell(vm) + FoldCount) % CellMod
        /\ Executes("DecValue") =>
              \E q \in 0..FoldCount :
                  /\ Cell(vm)' = Cell(vm) - FoldCount + q * CellMod
                  /\ Cell(vm)' \in 0..CellMod - 1
        /\ (phase = "running" /\ phase' = "finished" /\ vm'.result = "Ok(true)") =>
              /\ source = Repeat("+", CellMod) => Cell(vm)' = 0
              /\ source = <<"-">> => Cell(vm)' = CellMod - 1
      ]_vars

\* One IncValue(257) step, folded from 257 '+', has left 1 in a zero cell.
C8_Witness ==
    /\ phase = "finished"
    /\ rle
    /\ program.code = <<OpCode("IncValue", CellMod + 1)>>
    /\ Cell(vm) = 1

\* C9: IncDataPtr(n) fails with InvalidInstructionPointer iff data_ptr + n >=
\* memory_size and DecDataPtr(n) fails with MemoryOutOfBounds iff data_ptr < n;
\* otherwise data_ptr moves by n; data_ptr always stays inside the tape.
C9_PointerStep ==
    /\ [][ /\ Executes("IncDataPtr") =>
                 IF vm.data_ptr + FoldCount >= memory_size
                 THEN vm'.result = "InvalidInstructionPointer"
                 ELSE vm'.result \notin EvalErrors
                        /\ vm'.data_ptr = vm.data_ptr + FoldCount
           /\ Executes("DecDataPtr") =>
                 IF vm.data_ptr < FoldCount
                 THEN vm'.result = "MemoryOutOfBounds"
                 ELSE vm'.result \notin EvalErrors
                        /\ vm'.data_ptr = vm.data_ptr - FoldCount
         ]_vars
    /\ [](phase \in {"running", "finished"} =>
              vm.data_ptr >= 0 /\ vm.data_ptr < memory_size)

\* A pointer move succeeded and the next one failed at the end of the tape.
C9_Witness ==
    /\ phase = "finished"
    /\ vm.result = "InvalidInstructionPointer"
    /\ vm.data_ptr = 1
    /\ CurrentOp(program, vm).count = 1

\* A folded move to the left failed on a pointer that is not 0.
C9_WitnessDec ==
    /\ phase = "finished"
    /\ vm.result = "MemoryOutOfBounds"
    /\ vm.data_ptr = 1
    /\ CurrentOp(program, vm).count = 2

\* C10: an Input step takes one read from the input: a byte read is stored in
\* the current cell, at end of input the cell is kept; either way ip moves to
\* then_ip (or the run is done when there is none) and data_ptr, the other
\* cells and the output are unchanged.
C10_InputStep ==
    [][ (Executes("Input") /\ vm'.result \notin EvalErrors) =>
            LET data == vm.stdin.data
                s == Unwrap(get_step(program, vm.ip))
            IN  /\ IF data = <<>>
                   THEN vm'.stdin.data = <<>> /\ Cell(vm)' = Cell(vm)
                   ELSE /\ vm'.stdin.data = Tail(data)
                        /\ (vm.stdin.kind = "string" /\ Head(data) < CellMod)
                               => Cell(vm)' = Head(data)
                /\ IF IsSome(s.then_ip)
                   THEN vm'.ip = Unwrap(s.then_ip) /\ vm'.result = "Ok(false)"
                   ELSE vm'.ip = vm.ip /\ vm'.result = "Ok(true)"
                /\ vm'.data_ptr = vm.data_ptr
                /\ OtherCellsKept
                /\ vm'.stdout = vm.stdout
      ]_vars

\* An Input step at end of a string input has kept a cell holding 1.
C10_Witness ==
    /\ phase = "finished"
    /\ source = <<"+", ",">>
    /\ input = StdinString(<<>>)
    /\ vm.result = "Ok(true)"
    /\ Cell(vm) = 1

\* An Input step has stored the byte read and the run went on.
C10_WitnessByte ==
    /\ phase = "finished"
    /\ source = <<">", ",", "+">>
    /\ input = StdinString(<<65>>)
    /\ vm.stdin.data = <<>>
    /\ vm.memory = <<0, 66>>

(***************************************************************************)
(* Run-length folding and the interpreter.                                 *)
(***************************************************************************)
\* Number of source commands the first n opcodes of p stand for.
RECURSIVE PlainIndex(_, _)
PlainIndex(p, n) == IF n = 0 THEN 0 ELSE PlainIndex(p, n - 1) + count(p.code[n])

\* C2: the interpreter behaves the same on the rle = true and the rle = false
\* opcodes of a source: whenever the plain VM has caught up with the folded
\* VM both have the same result, output, tape, data pointer and place in the
\* source; the plain VM ends only when the folded VM has ended, and then with
\* the same result and output.
C2_RleEquivalence ==
    /\ phase = "failed" => ~program.ok /\ ~program_plain.ok
    /\ phase = "lockstep" =>
        /\ lag = 0 =>
            /\ vm.result = vm_plain.result
            /\ vm.stdout = vm_plain.stdout
            /\ vm.stdin = vm_plain.stdin
            /\ vm.result \in {"none", "Ok(false)", "Ok(true)"} =>
                /\ vm.memory = vm_plain.memory
                /\ vm.data_ptr = vm_plain.data_ptr
            /\ ~Over(vm) => vm_plain.ip = PlainIndex(program, vm.ip)
        /\ Over(vm_plain) =>
            /\ vm.result = vm_plain.result
            /\ vm.stdout = vm_plain.stdout
            /\ vm.result = "Ok(true)" =>
                vm.memory = vm_plain.memory /\ vm.data_ptr = vm_plain.data_ptr

\* Both runs have ended normally after a folded opcode was executed inside a
\* loop and something was written.
C2_Witness ==
    /\ phase = "lockstep" /\ lag = 0
    /\ vm.result = "Ok(true)" /\ vm_plain.result = "Ok(true)"
    /\ Len(program.code) < Len(program_plain.code)
    /\ \E i \in LoopStarts(program) :
          \E j \in i + 1..program.jump_table[i] - 1 : program.code[j + 1].count > 1
    /\ vm.memory # Repeat(0, Len(vm.memory))

\* Both runs have failed on a pointer move that the folding made one step.
C2_WitnessError ==
    /\ phase = "lockstep"
    /\ vm.result = "InvalidInstructionPointer" /\ vm_plain.result = "InvalidInstructionPointer"
    /\ vm.data_ptr # vm_plain.data_ptr

(***************************************************************************)
(* The JIT against the interpreter.                                        *)
(***************************************************************************)
JitAgrees ==
    /\ jit.status = "returned"
    /\ jit.stdout = vm.stdout
    /\ jit.memory = vm.memory

\* C1: the JIT run and the interpreter run of a source on the same input
\* agree unless the interpreter fails on a bounds error: once the emitted code
\* has returned, the interpreter run ends too, on a bounds error or with the
\* same bytes written and the same tape.
C1_JitMatchesInterpreter ==
    (phase = "running" /\ jit.status = "returned")
        ~> ( /\ phase = "finished"
             /\ \/ vm.result \in {"MemoryOutOfBounds", "InvalidInstructionPointer"}
                \/ vm.result = "Ok(true)" /\ JitAgrees )

\* The loop of a copy or clear source, and what it stands for.
LoopBody(src) ==
    LET open == CHOOSE i \in DOMAIN src : src[i] = "["
    IN  SubSeq(src, open + 1, Len(src) - 1)
CopyDistance(src) == Count(LoopBody(src), ">")
CopyOffset(src) ==
    LET body == LoopBody(src)
        first == CHOOSE i \in DOMAIN body :
                    body[i] \in {"<", ">"} /\ \A j \in 1..i - 1 : body[j] \notin {"<", ">"}
    IN  IF body[first] = ">" THEN CopyDistance(src) ELSE -CopyDistance(src)
RECURSIVE HasKind(_, _)
HasKind(node, kind) ==
    \/ node.kind = kind
    \/ /\ node.kind \in {"Program", "Loop"}
       /\ \E i \in DOMAIN node.arg : HasKind(node.arg[i], kind)

\* C3: a loop whose body is one folded DecValue or IncValue ends in the
\* interpreter, with the current cell 0 and the tape the emitted Set(0) leaves.
C3_ClearLoopSound ==
    phase = "jit" ~> ( /\ phase = "finished"
                       /\ vm.result = "Ok(true)"
                       /\ Cell(vm) = 0
                       /\ JitAgrees
                       /\ jit.ptr = vm.data_ptr )

\* The sum of the two cells a copy-loop source sets up: its + commands other
\* than the one in the loop and the one for the bystander.
SetupSum(src) ==
    Count(src, "+") - 1 - (IF memory_size = CopyDistance(src) + 2 THEN 1 ELSE 0)

\* The interpreter has ended a copy-loop source as AddTo(k) says: the current
\* cell is 0, the cell at the offset holds the wrapped sum, every other cell
\* is as before (0), the pointer is where it was, and the emitted code has
\* left the same tape and pointer.
CopyDone ==
    /\ phase = "finished"
    /\ vm.result = "Ok(true)"
    /\ Cell(vm) = 0
    /\ LET target == vm.data_ptr + CopyOffset(source)
           bystander == CopyDistance(source) + 1
       IN  /\ target \in 0..Len(vm.memory) - 1
           /\ vm.memory[target + 1] = SetupSum(source) % CellMod
           /\ \A i \in 0..Len(vm.memory) - 1 :
                 i \notin {target, bystander} => vm.memory[i + 1] = 0
           /\ bystander < Len(vm.memory) => vm.memory[bystander + 1] = 1
    /\ JitAgrees
    /\ jit.ptr = vm.data_ptr

\* C4: each of the four copy loops, for every distance k with the target cell
\* in the tape, ends in the interpreter in the state AddTo(+k) or AddTo(-k)
\* gives.
C4_CopyLoopSound == phase = "jit" ~> CopyDone

\* A copy loop to the left over two cells was rewritten to AddTo(-2), the sum
\* wrapped past 255 and the bystander cell kept its 1.
C4_Witness ==
    /\ CopyDone
    /\ HasKind(ast, "AddTo")
    /\ CopyOffset(source) = -2
    /\ SetupSum(source) > CellMod
    /\ vm.memory[vm.data_ptr - 1] = 1
    /\ Len(vm.memory) = 4

(***************************************************************************)
(* The Debugger (SpecDebug, SpecBreakpoints).                              *)
(***************************************************************************)
\* C13: every iteration of Debugger::run executes a VM step first, also when
\* ip is on a breakpoint; run returns false exactly when that step did not
\* end the program and the new ip is a breakpoint, true exactly when the step
\* signalled the end of the program, the step's error when it failed, and
\* goes round the loop in every other case.
C13_RunStopsAtBreakpoint ==
    [][ dbg_call' = "run" =>
            /\ vm' = execute_step(program, vm)
            /\ returned' = "Ok(false)" <=>
                   (vm'.result = "Ok(false)" /\ vm'.ip \in Range(breakpoints))
            /\ returned' = "Ok(true)" <=> vm'.result = "Ok(true)"
            /\ vm'.result \in EvalErrors => returned' = vm'.result
            /\ dbg_pc' = "idle" <=>
                   \/ returned' \in {"Ok(false)", "Ok(true)"}
                   \/ vm'.result \in EvalErrors \cup {"panic"}
            /\ breakpoints' = breakpoints
      ]_vars

\* A run has stopped on the breakpoint at the Output of a loop for the second
\* time: started on the breakpoint, it went round the loop.
C13_Witness ==
    /\ phase = "debug"
    /\ source = <<"+", "+", "[", ">", ".", "+", "<", "-", "]">>
    /\ rle
    /\ breakpoints = <<3>>
    /\ dbg_call = "run"
    /\ dbg_pc = "idle"
    /\ returned = "Ok(false)"
    /\ vm.ip = 3
    /\ Len(vm.stdout) = 1

StrictlyAscending(seq) == \A i, j \in DOMAIN seq : i < j => seq[i] < seq[j]

\* C14: breakpoints_list returns, strictly ascending, exactly the indices
\* whose last operation was an add; an add of an index that is in the set and
\* a delete of one that is not leave the set as it is.
C14_BreakpointSet ==
    [][ /\ dbg_call' = "breakpoints_list" =>
               /\ StrictlyAscending(listed')
               /\ Range(listed') = {i \in BpIndices : bp_last[i]}
        /\ (dbg_call' \in {"breakpoints_add", "breakpoints_delete"}
                /\ bp_last' = bp_last) =>
               breakpoints' = breakpoints
        /\ dbg_call' = "breakpoints_add" =>
               \E value \in BpIndices :
                   Range(breakpoints') = Range(breakpoints) \cup {value}
        /\ dbg_call' = "breakpoints_delete" =>
               \E value \in BpIndices :
                   Range(breakpoints') = Range(breakpoints) \ {value}
      ]_vars

\* The list of a set from which an index between two others is gone.
C14_Witness ==
    /\ phase = "debug"
    /\ dbg_call = "breakpoints_list"
    /\ listed = <<0, 1, 3>>
    /\ breakpoints = listed
    /\ bp_last = [i \in BpIndices |-> i # 2]

SameButResult(v, w) ==
    /\ v.ip = w.ip
    /\ v.data_ptr = w.data_ptr
    /\ v.memory = w.memory
    /\ v.stdout = w.stdout

\* C15: a step of the debugger, alone or in run(), that fails with an
\* evaluation error leaves ip, data_ptr, the tape, the output and the
\* breakpoints as they were (so what earlier steps of a run did is kept), the
\* debugger takes further calls, and a further step fails with the same error.
C15_FailedStepKeepsState ==
    [][ (dbg_call' \in {"step", "run"} /\ vm'.result \in EvalErrors) =>
            /\ SameButResult(vm, vm')
            /\ breakpoints' = breakpoints
            /\ returned' = vm'.result
            /\ dbg_pc' = "idle"
            /\ phase' = "debug"
            /\ execute_step(program, vm').result = vm'.result
            /\ SameButResult(vm', execute_step(program, vm'))
      ]_vars

\* A run has failed on the move to the left of cell 0, after the steps before
\* it wrote both cells; a breakpoint is set.
C15_Witness ==
    /\ phase = "debug"
    /\ source = <<"+", ">", "+", "<", "<">>
    /\ dbg_call = "run"
    /\ returned = "MemoryOutOfBounds"
    /\ vm.memory = <<1, 1>>
    /\ vm.data_ptr = 0
    /\ breakpoints # <<>>

(***************************************************************************)
(* The Profiler (SpecProfile).                                             *)
(***************************************************************************)
RECURSIVE SumSeq(_, _)
SumSeq(seq, n) == IF n = 0 THEN 0 ELSE SumSeq(seq, n - 1) + seq[n]

\* C16: when a Profiler run has ended normally, the k counters of an opcode
\* with fold count k that was executed m times, from ip_map[i] on, all hold m,
\* and the counters add up to the sum of the counts of the executed steps.
C16_CountersAfterRun ==
    (phase = "profiled" /\ vm.result = "Ok(true)") =>
        /\ \A i \in 1..Len(program.code) :
              \A j \in 0..count(program.code[i]) - 1 :
                  /\ ip_map[i] + j + 1 \in DOMAIN profile_data
                  /\ profile_data[ip_map[i] + j + 1] = executed[i]
        /\ SumSeq(profile_data, Len(profile_data))
              = SumSeq([i \in 1..Len(program.code) |->
                           executed[i] * count(program.code[i])],
                       Len(program.code))

\* C17: enable_profiler makes as many counters as the opcodes' counts add up
\* to, all 0, and ip_map[i] the sum of the counts before i; the run never
\* indexes a counter outside profile_data.
C17_CountersAllocated ==
    phase \in {"profiling", "profiled"} =>
        /\ Len(profile_data) = PlainIndex(program, Len(program.code))
        /\ vm.result = "none" => \A i \in DOMAIN profile_data : profile_data[i] = 0
        /\ \A i \in 0..Len(program.code) - 1 : ip_map[i + 1] = PlainIndex(program, i)
        /\ vm.result # "panic"

(***************************************************************************)
(* The run-length fold of Program::new (SpecParse).                        *)
(***************************************************************************)
\* count copies of the count-1 opcode for a counted opcode, the opcode itself
\* for any other
RECURSIVE Expand(_, _)
Expand(code, n) ==
    IF n = 0 THEN <<>>
    ELSE Expand(code, n - 1)
             \o ( IF code[n].op \in CountedOps
                  THEN Repeat(OpCode(code[n].op, 1), code[n].count)
                  ELSE <<code[n]>> )

\* The commands of the source a folded opcode stands for: those from the
\* n-th command on, for the length of the opcode.
CommandsOf(src) == SelectSeq(src, LAMBDA c : c \in CommandChars)

\* C18: with rle = true the opcodes are the maximal run-length folding of the
\* opcodes of rle = false: adjacent opcodes are never of the same counted
\* kind, every count is at least 1 and is the length of the run of equal
\* commands the opcode replaces (other characters do not break a run),
\* brackets, Input and Output are never merged, and expanding the counts
\* gives the rle = false opcodes back.
C18_MaximalFolding ==
    (phase \in {"ready", "stepped"} /\ rle) =>
        LET folded == program.code
            plain == Tokenise(source)
            cmds == CommandsOf(source)
        IN  /\ \A i \in 1..Len(folded) - 1 :
                  ~(folded[i].op \in CountedOps /\ folded[i + 1].op = folded[i].op)
            /\ \A i \in 1..Len(folded) :
                  /\ folded[i].count >= 1
                  /\ folded[i].op \notin CountedOps => folded[i].count = 1
                  /\ LET before == PlainIndex(program, i - 1)
                     IN  \A j \in before + 1 .. before + folded[i].count :
                             j <= Len(cmds) /\ cmds[j] = to_char(folded[i])
            /\ Expand(folded, Len(folded)) = plain
            /\ plain = ProgramNew(source, FALSE).code

\* Two '+' around another character were folded into one IncValue(2), two
\* Outputs were not folded.
C18_Witness ==
    /\ phase = "ready"
    /\ rle
    /\ source = <<"+", "x", "+", ".", ".">>
    /\ program.code = <<OpCode("IncValue", 2), OpCode("Output", 1), OpCode("Output", 1)>>

\* The source of test_optimization was folded into four opcodes.
C18_WitnessTest ==
    /\ phase = "ready"
    /\ rle
    /\ source = Repeat("+", 10) \o <<"[">> \o Repeat("-", 10) \o <<"]">>
    /\ program.code = <<OpCode("IncValue", 10), OpCode("LoopStart", 1),
                        OpCode("DecValue", 10), OpCode("LoopEnd", 1)>>

(***************************************************************************)
(* The optimiser's copy loops (SpecAst).                                   *)
(***************************************************************************)
\* C19: with rle set or not, JIT::new turns "+>+<[->>+<<]" into
\* Program([IncValue(1), IncDataPtr(1), IncValue(1), DecDataPtr(1), AddTo(2)]),
\* and the loop [- >*k + <*k] of a source into AddTo(k), the loop
\* [- <*k + >*k] into AddTo(-k), for every k >= 1.
C19_CopyLoopRewritten ==
    phase \in {"jit", "running", "finished"} =>
        /\ source = CopyExample =>
               ast = Node("Program",
                          << Node("IncValue", 1), Node("IncDataPtr", 1),
                             Node("IncValue", 1), Node("DecDataPtr", 1),
                             Node("AddTo", 2) >>)
        /\ Last(ast.arg) = Node("AddTo", CopyOffset(source))

(***************************************************************************)
(* Order of the output and of the input (SpecDebug; the steps of Spec are  *)
(* the same execute_step).                                                 *)
(***************************************************************************)
\* What the console gives for the byte b of the standard input.
ConsoleValue(b) == IF b = Newline THEN 0 ELSE b

\* An execute_step is taken, by the run loop or by the debugger.
StepTaken == phase \in {"running", "debug"} /\ vm' # vm

\* C20: a step on Output appends the value of the current cell to the output
\* and no other step changes the output, so the output is the values of the
\* executed Output steps in order; a step on Input takes the first unread
\* byte of the input and no other step reads; output() of the debugger
\* returns the output so far.
C20_OutputInOrder ==
    [][ /\ StepTaken =>
              /\ IF CurrentOp(program, vm).op = "Output"
                 THEN vm'.stdout = Append(vm.stdout, Cell(vm))
                 ELSE vm'.stdout = vm.stdout
              /\ IF CurrentOp(program, vm).op = "Input" /\ vm.stdin.data # <<>>
                 THEN /\ vm'.stdin.data = Tail(vm.stdin.data)
                      /\ vm.stdin.kind = "console" =>
                             Cell(vm)' = ConsoleValue(Head(vm.stdin.data))
                 ELSE vm'.stdin = vm.stdin
        /\ dbg_call' = "output" => shown' = vm.stdout /\ vm' = vm
      ]_vars

\* output() has returned the two values a loop wrote, in the order written.
C20_Witness ==
    /\ phase = "debug"
    /\ dbg_call = "output"
    /\ shown = <<0, 1>>
    /\ vm.result = "Ok(true)"

\* Two Input steps and two Output steps have read and written the bytes in
\* the order they were supplied.
C20_WitnessInput ==
    /\ phase = "debug"
    /\ source = <<",", ".", ",", ".">>
    /\ input.data = <<65, Newline>>
    /\ vm.stdin.data = <<>>
    /\ vm.stdout = <<65, 0>>

(***************************************************************************)
(* The hello-world run (SpecHello).                                        *)
(***************************************************************************)
\* C21: the run of the hello-world source with rle = false, an empty string
\* input and 1024 cells ends, without an error, and has then written exactly
\* "Hello World!\n".
C21_HelloWorld ==
    (phase = "running")
        ~> (phase = "finished" /\ vm.result = "Ok(true)" /\ vm.stdout = HelloOutput)

\* The run has ended with the whole text written and the tape as long as made.
C21_Witness ==
    /\ phase = "finished"
    /\ source = HelloWorld
    /\ ~rle
    /\ vm.result = "Ok(true)"
    /\ to_string(vm.stdout) = HelloOutput
    /\ Len(vm.memory) = HelloMem

(***************************************************************************)
(* The optimiser and the code generator (SpecOpt).                         *)
(***************************************************************************)
ValueKinds == {"IncValue", "DecValue"}
PointerKinds == {"IncDataPtr", "DecDataPtr"}
CopyShapes ==
    { <<"DecValue", "IncDataPtr", "IncValue", "DecDataPtr">>,
      <<"DecValue", "DecDataPtr", "IncValue", "IncDataPtr">>,
      <<"DecDataPtr", "IncValue", "IncDataPtr", "DecValue">>,
      <<"IncDataPtr", "IncValue", "DecDataPtr", "DecValue">> }

\* A body is a clear body when it is one value node, a copy body when it is
\* four nodes in a copy shape, the value counts 1 and the pointer counts equal.
IsClearBody(b) == Len(b) = 1 /\ b[1].kind \in ValueKinds
IsCopyBody(b) ==
    /\ Len(b) = 4
    /\ Kinds(b) \in CopyShapes
    /\ \A i \in 1..4 : b[i].kind \in ValueKinds => b[i].arg = 1
    /\ \A i, j \in 1..4 :
          (b[i].kind \in PointerKinds /\ b[j].kind \in PointerKinds)
              => b[i].arg = b[j].arg
\* The offset of a copy body: its distance, to the side of its first move.
CopyBodyOffset(b) ==
    LET first == CHOOSE i \in 1..4 :
                    b[i].kind \in PointerKinds
                        /\ \A j \in 1..i - 1 : b[j].kind \notin PointerKinds
    IN  IF b[first].kind = "IncDataPtr" THEN b[first].arg ELSE -b[first].arg

\* The tree the rewriting rules give, bottom up.
RECURSIVE Rewritten(_)
Rewritten(node) ==
    IF node.kind = "Program"
    THEN Node("Program", [i \in 1..Len(node.arg) |-> Rewritten(node.arg[i])])
    ELSE IF node.kind = "Loop"
    THEN LET b == [i \in 1..Len(node.arg) |-> Rewritten(node.arg[i])]
         IN  IF IsClearBody(b) THEN Node("Set", 0)
             ELSE IF IsCopyBody(b) THEN Node("AddTo", CopyBodyOffset(b))
             ELSE Node("Loop", b)
    ELSE node

\* C22: a Loop is rewritten only when its optimised body is one value node or
\* a copy body; every other Loop stays a Loop of its optimised children in
\* their order and every other node is kept, so "+[-]" becomes
\* Program([IncValue(1), Set(0)]).
C22_OnlyListedRewrites ==
    phase \in {"jit", "running", "finished"} =>
        /\ ast = Rewritten(Node("Program", convert_opcodes(program, 0, Len(program.code))))
        /\ source = <<"+">> \o Loop(<<"-">>) =>
               ast = Node("Program", <<Node("IncValue", 1), Node("Set", 0)>>)

\* A loop of four nodes, with an inner Set and moves of 2 and 1, is still a Loop.
C22_Witness ==
    /\ phase = "jit"
    /\ rle
    /\ ast = Node("Program",
                  << Node("Loop", << Node("Set", 0), Node("IncDataPtr", 2),
                                     Node("IncValue", 1), Node("DecDataPtr", 1) >>) >>)

\* The loops open after call i, and the loop_end that closes the loop_start
\* at i: the first later loop_end at which that loop is no longer open.
OpenLoops(i) ==
    Cardinality({j \in 1..i : calls[j].name = "loop_start"})
        - Cardinality({j \in 1..i : calls[j].name = "loop_end"})
ClosedBy(i, j) ==
    /\ j > i
    /\ calls[j].name = "loop_end"
    /\ OpenLoops(j) = OpenLoops(i) - 1
    /\ \A k \in i + 1..j - 1 : OpenLoops(k) >= OpenLoops(i)

\* The names of the calls a tree asks for, in program order.
RECURSIVE CallNames(_)
CallNamesOf(nodes) ==
    LET RECURSIVE Cat(_)
        Cat(i) == IF i > Len(nodes) THEN <<>> ELSE CallNames(nodes[i]) \o Cat(i + 1)
    IN  Cat(1)
CallNames(node) ==
    CASE node.kind = "Program" ->
            <<"function_prolog">> \o CallNamesOf(node.arg) \o <<"function_epilog">>
      [] node.kind = "Loop" -> <<"loop_start">> \o CallNamesOf(node.arg) \o <<"loop_end">>
      [] node.kind = "Input" -> <<"input">>
      [] node.kind = "Output" -> <<"output">>
      [] node.kind \in ValueKinds -> <<"update_value">>
      [] node.kind \in PointerKinds -> <<"update_memory_ptr">>
      [] node.kind = "Set" -> <<"set">>
      [] node.kind = "AddTo" -> <<"add_to">>

\* C23: the emitter is called well-bracketed: function_prolog first and
\* function_epilog last, each once; every loop_start is closed by one
\* loop_end that receives the two labels that loop_start returned, loops
\* nesting as the tree's loops do; the calls follow the tree in program order.
C23_CallsWellBracketed ==
    phase \in {"jit", "running", "finished"} =>
        /\ Len(calls) >= 2
        /\ calls[1].name = "function_prolog"
        /\ calls[Len(calls)].name = "function_epilog"
        /\ \A i \in 2..Len(calls) - 1 :
              calls[i].name \notin {"function_prolog", "function_epilog"}
        /\ \A i \in 1..Len(calls) :
              /\ OpenLoops(i) >= 0
              /\ calls[i].name = "loop_start" =>
                    /\ Len(calls[i].labels) = 2
                    /\ \E j \in 1..Len(calls) :
                          ClosedBy(i, j) /\ calls[j].labels = calls[i].labels
                    /\ \A j \in 1..Len(calls) :
                          (j # i /\ calls[j].name = "loop_start")
                              => Range(calls[j].labels) \cap Range(calls[i].labels) = {}
        /\ OpenLoops(Len(calls)) = 0
        /\ [i \in 1..Len(calls) |-> calls[i].name] = CallNames(ast)

\* Two nested loops with an output and an input between their brackets.
C23_Witness ==
    /\ phase = "jit"
    /\ [i \in 1..Len(calls) |-> calls[i].name]
          = << "function_prolog", "loop_start", "output", "loop_start", "input",
               "loop_end", "loop_end", "output", "function_epilog" >>
    /\ calls[2].labels = calls[7].labels
    /\ calls[4].labels = calls[6].labels

(***************************************************************************)
(* The end of the program (SpecDebug).                                     *)
(***************************************************************************)
\* C24: the end of the program is absorbing: once a step has returned
\* done = true, every later execute_step, Debugger.step and Debugger.run
\* returns true again and leaves the tape, data_ptr, ip and the output as
\* they were.
C24_EndIsAbsorbing ==
    [][ (dbg_call' \in {"step", "run"} /\ vm.result = "Ok(true)") =>
            /\ vm'.result = "Ok(true)"
            /\ returned' = "Ok(true)"
            /\ SameButResult(vm, vm')
      ]_vars

(***************************************************************************)
(* The profiled run against the plain run (SpecProfile).                   *)
(***************************************************************************)
\* C25: for a source without a command character run() ends at once and
\* successfully, in the Normal and in the Profiler mode, with no output, a
\* tape of zeros, ip = 0 and data_ptr = 0.
C25_EmptyProgramRuns ==
    (Tokenise(source) = <<>> /\ phase \in {"finished", "profiled"}) =>
        /\ vm.result = "Ok(true)"
        /\ vm.stdout = <<>>
        /\ vm.memory = Repeat(0, memory_size)
        /\ vm.ip = 0
        /\ vm.data_ptr = 0

\* C26: profiling does not change the execution: enable_profiler carries ip,
\* data_ptr, the tape and the I/O over as VM::new made them, and every
\* iteration of the profiled run takes the VM where execute_step of the plain
\* run takes it, so both runs visit the same states and end with the same
\* output and result.
C26_ProfilingKeepsExecution ==
    [][ /\ (phase = "new" /\ phase' = "profiling") => vm' = VMNew(input, memory_size)
        /\ phase = "profiling" => vm' = execute_step(program, vm)
      ]_vars

(***************************************************************************)
(* The shape of the interpreter's states (Spec).                           *)
(***************************************************************************)
\* C27: in every state of the interpreter with memory_size >= 1 the tape has
\* exactly memory_size cells and 0 <= data_ptr < memory_size: the tape starts
\* as zeros with data_ptr 0 and neither grows nor shrinks, so the current
\* cell is always a cell of the tape.
C27_PointerInsideTape ==
    (phase \in {"running", "finished"} /\ memory_size >= 1) =>
        /\ Len(vm.memory) = memory_size
        /\ vm.data_ptr \in 0..memory_size - 1
        /\ vm.data_ptr + 1 \in DOMAIN vm.memory
        /\ vm.result # "panic"
        /\ vm.result = "none" =>
              vm.data_ptr = 0 /\ \A i \in DOMAIN vm.memory : vm.memory[i] = 0

\* The run has moved to the last cell of a tape of two and written to it.
C27_Witness ==
    /\ phase \in {"running", "finished"}
    /\ memory_size = MaxMem
    /\ vm.data_ptr = memory_size - 1
    /\ Cell(vm) # 0
    /\ vm.memory[1] = 0

(***************************************************************************)
(* The instruction pointer (SpecDebug).                                    *)
(***************************************************************************)
\* C28: with a non-empty program ip is always the index of an opcode; when
\* the opcode at ip is a loop bracket, ip is a key of the jump table; so
\* get_step(ip) is never absent during a run, and a breakpoint at an index
\* at or past the end of the program is never hit.
C28_IpIsAnOpcode ==
    (phase = "debug" /\ Len(program.code) > 0) =>
        /\ vm.ip \in 0..Len(program.code) - 1
        /\ program.code[vm.ip + 1].op \in {"LoopStart", "LoopEnd"}
              => vm.ip \in DOMAIN program.jump_table
        /\ get_step(program, vm.ip) # None
        /\ \A b \in Range(breakpoints) :
              (b >= Len(program.code) /\ dbg_call = "run" /\ returned = "Ok(false)")
                  => vm.ip # b

\* A run with a breakpoint at the index after the last opcode has ended on
\* the last opcode without stopping there.
C28_Witness ==
    /\ phase = "debug"
    /\ Len(program.code) > 0
    /\ BTreeContains(breakpoints, Len(program.code))
    /\ dbg_call = "run"
    /\ returned = "Ok(true)"
    /\ vm.ip = Len(program.code) - 1

(***************************************************************************)
(* What a step leaves alone (Spec).                                        *)
(***************************************************************************)
\* The two brackets of the pair that the bracket at ip belongs to.
PairStart(ip) ==
    IF program.code[ip + 1].op = "LoopStart" THEN ip ELSE program.jump_table[ip]
PairEnd(ip) ==
    IF program.code[ip + 1].op = "LoopEnd" THEN ip ELSE program.jump_table[ip]
\* ip goes to `target` when that is an opcode; otherwise the run is done.
GoesTo(target) ==
    IF target < Len(program.code)
    THEN vm'.ip = target /\ vm'.result = "Ok(false)"
    ELSE vm'.ip = vm.ip /\ vm'.result = "Ok(true)"

\* C29: a step changes only what its opcode names.  At a bracket ip goes to
\* the index after the LoopEnd of its pair when the current cell is zero and
\* to the index after the LoopStart of its pair otherwise, and the tape,
\* data_ptr and the output are kept; a pointer move keeps the tape and the
\* output; a value step keeps data_ptr, the other cells and the output; an
\* Output keeps the tape and data_ptr; no step changes the opcodes or the
\* jump table.
C29_StepFrame ==
    [][ phase = "running" =>
          /\ program' = program
          /\ vm'.stdin.kind = vm.stdin.kind
          /\ (Executes("LoopStart") \/ Executes("LoopEnd")) =>
                /\ GoesTo(IF Cell(vm) = 0 THEN PairEnd(vm.ip) + 1
                          ELSE PairStart(vm.ip) + 1)
                /\ vm'.memory = vm.memory
                /\ vm'.data_ptr = vm.data_ptr
                /\ vm'.stdout = vm.stdout
                /\ vm'.stdin = vm.stdin
          /\ (Executes("IncDataPtr") \/ Executes("DecDataPtr")) =>
                /\ vm'.memory = vm.memory
                /\ vm'.stdout = vm.stdout
                /\ vm'.stdin = vm.stdin
                /\ vm'.result \notin EvalErrors => GoesTo(vm.ip + 1)
                /\ vm'.result \in EvalErrors =>
                      vm'.ip = vm.ip /\ vm'.data_ptr = vm.data_ptr
          /\ (Executes("IncValue") \/ Executes("DecValue")) =>
                /\ OtherCellsKept
                /\ vm'.data_ptr = vm.data_ptr
                /\ vm'.stdout = vm.stdout
                /\ vm'.stdin = vm.stdin
                /\ GoesTo(vm.ip + 1)
          /\ Executes("Output") =>
                /\ vm'.memory = vm.memory
                /\ vm'.data_ptr = vm.data_ptr
                /\ vm'.stdin = vm.stdin
                /\ vm'.stdout = Append(vm.stdout, Cell(vm))
                /\ GoesTo(vm.ip + 1)
      ]_vars

\* The run is back at the opcode after the LoopStart, sent there by the
\* LoopEnd on a cell that was not zero.
C29_Witness ==
    /\ phase = "running"
    /\ source = <<"-", "[", "-", "]">>
    /\ vm.ip = 2
    /\ Cell(vm) = CellMod - 3

\* An Output step has written the cell and kept it.
C29_WitnessOutput ==
    /\ phase = "finished"
    /\ source = <<"+", ".">>
    /\ vm.stdout = <<1>>
    /\ vm.memory = <<1>>

(***************************************************************************)
(* The addresses the emitted code touches (SpecJit).                       *)
(***************************************************************************)
\* C30: the emitted code accesses a tape address only if the interpreter
\* accesses that cell: an add_to executed on a zero cell does not access the
\* cell at data_ptr + off, so when the interpreter run of a source stays inside
\* the tape and ends normally, the emitted code has made no access outside it.
C30_JitStaysInsideTape ==
    (phase = "finished" /\ vm.result = "Ok(true)") => jit.status # "fault"

(***************************************************************************)
(* The lowering of the opcodes to a tree (SpecOpt).                        *)
(***************************************************************************)
\* The opcodes a list of nodes stands for, a Loop written as LoopStart, its
\* children, LoopEnd.
RECURSIVE Flatten(_)
FlattenNode(node) ==
    CASE node.kind = "Loop" ->
            <<OpCode("LoopStart", 1)>> \o Flatten(node.arg) \o <<OpCode("LoopEnd", 1)>>
      [] node.kind \in CountedOps -> <<OpCode(node.kind, node.arg)>>
      [] OTHER -> <<OpCode(node.kind, 1)>>
Flatten(nodes) ==
    IF nodes = <<>> THEN <<>> ELSE FlattenNode(Head(nodes)) \o Flatten(Tail(nodes))

\* The tree before optimisation.
Lowered == convert_opcodes(program, 0, Len(program.code))

\* C31: for a Program that was constructed, the lowering gives a tree whose
\* flattening is the opcode stream: counted and I/O opcodes one to one, in
\* order, with their counts; every matched pair (s, e) is one Loop made of
\* exactly the opcodes strictly between s and e; the LoopEnd arm is never
\* reached.
C31_LoweringFlattensToCode ==
    (phase \in {"jit", "running", "finished"} /\ program.ok) =>
        /\ Flatten(Lowered) = program.code
        /\ ~HasKind(Node("Program", Lowered), "unreachable")
        /\ \A s \in LoopStarts(program) :
              LET e == program.jump_table[s]
                  pair == convert_opcodes(program, s, e + 1)
              IN  /\ Len(pair) = 1
                  /\ pair[1].kind = "Loop"
                  /\ pair[1].arg = convert_opcodes(program, s + 1, e)
                  /\ Flatten(pair[1].arg) = SubSeq(program.code, s + 2, e)

\* A loop with an output and an inner loop around an input has been lowered
\* to a Loop inside a Loop.
C31_Witness ==
    /\ phase = "jit"
    /\ source = Loop(<<".">> \o Loop(<<",">>)) \o <<".">>
    /\ Lowered = << Node("Loop", << Node("Output", 0),
                                    Node("Loop", <<Node("Input", 0)>>) >>),
                    Node("Output", 0) >>

(***************************************************************************)
(* The optimiser applied again (SpecOpt).                                  *)
(***************************************************************************)
\* No Loop of the tree, at any depth, has a body that a pattern matches.
RECURSIVE NoLoopMatches(_)
NoLoopMatches(node) ==
    /\ node.kind = "Loop" => ~IsClearBody(node.arg) /\ ~IsCopyBody(node.arg)
    /\ node.kind \in {"Program", "Loop"} =>
          \A i \in DOMAIN node.arg : NoLoopMatches(node.arg[i])

\* C32: the optimisation is idempotent and bottom up: optimising the
\* optimised tree gives the same tree, inner loops are rewritten before the
\* loop around them is matched, and no Loop of the result has a body that one
\* of the five patterns matches; a loop whose only child became Set or AddTo,
\* as in "[[-]]", is still a Loop.
C32_OptimizeIdempotent ==
    phase \in {"jit", "running", "finished"} =>
        /\ optimize(ast) = ast
        /\ optimize(optimize(Node("Program", Lowered))) = optimize(Node("Program", Lowered))
        /\ NoLoopMatches(ast)
        /\ source = Loop(Loop(<<"-">>)) =>
              ast = Node("Program", <<Node("Loop", <<Node("Set", 0)>>)>>)
        /\ (source = Loop(Loop(<<"-", ">", "+", "<">>)) /\ ~rle) =>
              ast = Node("Program", <<Node("Loop", <<Node("AddTo", 1)>>)>>)

\* The inner loop of "[[-]]" has become Set(0) and the outer loop is a Loop.
C32_Witness ==
    /\ phase = "jit"
    /\ source = Loop(Loop(<<"-">>))
    /\ ast.arg[1].kind = "Loop"
    /\ ast.arg[1].arg = <<Node("Set", 0)>>

(***************************************************************************)
(* Runs without loops (SpecStraight).                                      *)
(***************************************************************************)
\* C33: for a program of L >= 1 opcodes without brackets run() terminates:
\* the steps execute the opcodes 0, 1, ... in order, each once, and the run
\* stops with done at the step on opcode L - 1, the L-th step, or earlier at
\* the first step that returns an evaluation error.
C33_StraightRunEnds ==
    /\ [][ (phase = "running" /\ Len(program.code) >= 1
                /\ LoopStarts(program) \cup LoopEnds(program) = {}
                /\ <<phase, vm>>' # <<phase, vm>>) =>
              \/ /\ vm'.result = "Ok(false)"
                 /\ vm'.ip = vm.ip + 1
                 /\ vm.ip + 1 < Len(program.code)
                 /\ phase' = "running"
              \/ /\ vm'.result = "Ok(true)"
                 /\ vm.ip = Len(program.code) - 1
                 /\ vm'.ip = vm.ip
                 /\ phase' = "finished"
              \/ /\ vm'.result \in EvalErrors
                 /\ vm'.ip = vm.ip
                 /\ phase' = "finished"
         ]_vars
    /\ [](phase = "running" /\ vm.result = "none" => vm.ip = 0)
    /\ (phase = "running") ~> (phase = "finished")

\* A run of three opcodes has ended with done on the third.
C33_Witness ==
    /\ phase = "finished"
    /\ Len(program.code) = MaxStraightLen
    /\ vm.result = "Ok(true)"
    /\ vm.ip = Len(program.code) - 1
    /\ vm.stdout # <<>>

(***************************************************************************)
(* The Debugger's inspections (SpecInspect).                               *)
(***************************************************************************)
InspectionCalls ==
    {"registers", "memory", "memory_dump", "program_list", "output",
     "breakpoints_add", "breakpoints_delete", "breakpoints_list"}

\* C34: the inspections and the breakpoint operations of the Debugger change
\* neither ip, data_ptr, the tape nor the output; step() makes exactly one
\* step of the VM and keeps the breakpoints; registers() returns the current
\* (ip, data_ptr); memory(i) returns the cell at i when i < memory_size and
\* nothing otherwise.
C34_InspectionsKeepTheVM ==
    [][ /\ dbg_call' \in InspectionCalls => vm' = vm
        /\ dbg_call' = "step" =>
              /\ vm' = execute_step(program, vm)
              /\ breakpoints' = breakpoints
        /\ dbg_call' = "registers" =>
              /\ inspected'.op = "registers"
              /\ inspected'.ret = <<vm.ip, vm.data_ptr>>
        /\ dbg_call' = "memory" =>
              LET i == inspected'.args[1]
              IN  /\ inspected'.op = "memory"
                  /\ IF i < memory_size
                     THEN inspected'.ret = Some(vm.memory[i + 1])
                     ELSE inspected'.ret = None
      ]_vars

\* memory(1) on a tape of one cell has returned nothing, after a step wrote
\* to the cell and with a breakpoint set.
C34_Witness ==
    /\ phase = "debug"
    /\ dbg_call = "memory"
    /\ inspected = Inspection("memory", <<1>>, None)
    /\ memory_size = 1
    /\ vm.memory # <<0>>
    /\ breakpoints # <<>>

\* The multiples of 16 from the one at or below start up to start + len,
\* in ascending order.
RECURSIVE RowAddresses(_, _)
RowAddresses(a, limit) ==
    IF a < limit THEN <<a>> \o RowAddresses(a + ElementCount, limit) ELSE <<>>

\* C35: memory_dump(start, len) gives, in ascending order, one row for every
\* multiple of 16 a with floor(start/16)*16 <= a < start + len, and no row
\* when len = 0; every row has its address, 16 hex columns and 16 ASCII
\* columns; the column of an address outside [start, start + len) is blank
\* and the column of an address inside it shows the value of the cell.
C35_DumpRows ==
    [][ dbg_call' = "memory_dump" =>
          LET start == inspected'.args[1]
              len == inspected'.args[2]
              rows == inspected'.ret
              InWindow(address) == start <= address /\ address < start + len
          IN  /\ [i \in 1..Len(rows) |-> rows[i].address]
                    = RowAddresses((start \div ElementCount) * ElementCount, start + len)
              /\ len = 0 => rows = <<>>
              /\ \A i \in 1..Len(rows) :
                    /\ Len(rows[i].hex) = ElementCount
                    /\ Len(rows[i].ascii) = ElementCount
                    /\ \A offset \in 0..ElementCount - 1 :
                          LET address == rows[i].address + offset
                          IN  IF InWindow(address)
                              THEN /\ ~rows[i].hex[offset + 1].blank
                                   /\ ~rows[i].ascii[offset + 1].blank
                                   /\ address < memory_size =>
                                         rows[i].hex[offset + 1].value
                                            = vm.memory[address + 1]
                              ELSE /\ rows[i].hex[offset + 1].blank
                                   /\ rows[i].ascii[offset + 1].blank
      ]_vars

(***************************************************************************)
(* The listing (SpecList).                                                 *)
(***************************************************************************)
\* The indices lo, lo + 1, ..., hi.
IndexRun(lo, hi) == [k \in 1..(IF hi < lo THEN 0 ELSE hi - lo + 1) |-> lo + k - 1]
LineIndices(lines) == [k \in 1..Len(lines) |-> lines[k].index]
Smaller(a, b) == IF a < b THEN a ELSE b

\* C36: program_list(focus) lists the opcodes at the indices i with
\* max(0, focus - 3) <= i <= focus + 3 and i < program length, a line each, in
\* ascending order, at most seven and the focus among them; the focus is the
\* current ip when none is given; the listing of a range [start, end] has the
\* line of opcode i iff start <= i <= end.
C36_ListingWindow ==
    [][ dbg_call' = "program_list" =>
          LET index == inspected'.args
              focus == IF IsSome(index) THEN Unwrap(index) ELSE vm.ip
              lines == inspected'.ret
              length == Len(program.code)
          IN  /\ LineIndices(lines)
                    = IndexRun(IF focus < 3 THEN 0 ELSE focus - 3,
                               Smaller(focus + 3, length - 1))
              /\ Len(lines) <= 7
              /\ focus < length => \E k \in 1..Len(lines) : lines[k].index = focus
              /\ \A k \in 1..Len(lines) :
                    lines[k].opcode = program.code[lines[k].index + 1]
              \* the ranges over the first opcodes, once for every state listed
              /\ index = None =>
                    \A start, end \in 0..Smaller(length, MaxListLen) :
                        LineIndices(listing(program, Some(start), Some(end)))
                            = IndexRun(start, Smaller(end, length - 1))
      ]_vars

\* A listing around the current ip, in the middle of the program, has seven
\* lines.
C36_Witness ==
    /\ phase = "debug"
    /\ dbg_call = "program_list"
    /\ inspected.args = None
    /\ Len(inspected.ret) = 7
    /\ inspected.ret[4].index = vm.ip
    /\ vm.ip > 3

\* The loops around index i, and the deepest nesting of the program.
Enclosing(i) == {s \in LoopStarts(program) : s < i /\ i < program.jump_table[s]}
DepthAt(i) ==
    Cardinality({s \in LoopStarts(program) : s <= i /\ i <= program.jump_table[s]})
MaxDepth ==
    LET depths == {DepthAt(i) : i \in 0..Len(program.code) - 1} \cup {0}
    IN  CHOOSE d \in depths : \A e \in depths : e <= d
Pipes(line) == Count(line.gutter, "pipe")

\* C37: in the listing of a constructed Program with deepest nesting D the
\* gutter of every line, bracket or not, is D + 2 glyphs wide; the lines of a
\* LoopStart and of its LoopEnd carry the same depth; a line that is not a
\* bracket shows as many bars as there are loops around it.
C37_GutterWidth ==
    (phase = "debug" /\ program.ok) =>
        LET lines == listing(program, None, None)
        IN  /\ Len(lines) = Len(program.code)
            /\ \A k \in 1..Len(lines) :
                  /\ Len(lines[k].gutter) = MaxDepth + 2
                  /\ IF k - 1 \in DOMAIN program.jump_table
                     THEN /\ Pipes(lines[k]) = Pipes(lines[program.jump_table[k - 1] + 1])
                          /\ Pipes(lines[k]) = DepthAt(k - 1) - 1
                     ELSE Pipes(lines[k]) = Cardinality(Enclosing(k - 1))
            /\ inspected.op = "program_list" =>
                  \A k \in 1..Len(inspected.ret) :
                      inspected.ret[k] = lines[inspected.ret[k].index + 1]

\* A listing shows the bracket of the inner of two loops and a line inside
\* both loops.
C37_Witness ==
    /\ phase = "debug"
    /\ inspected.op = "program_list"
    /\ \E k \in 1..Len(inspected.ret) :
          inspected.ret[k].gutter = <<"pipe", "corner_down", "dash", "arrow">>
    /\ \E k \in 1..Len(inspected.ret) :
          inspected.ret[k].gutter = <<"pipe", "pipe", "space", "space">>

(***************************************************************************)
(* The textual form of a Program (SpecParse).                              *)
(***************************************************************************)
\* The source without the characters that are no command.
CommandsOnly(src) == SelectSeq(src, LAMBDA c : c \in CommandChars)

\* C38: for a Program built with rle = false the textual form is the source
\* without the characters other than the eight commands, so a source of
\* commands only comes back unchanged; the opcode at index i is the opcode of
\* the i-th command character.
C38_TextRoundTrip ==
    (phase \in {"ready", "stepped"} /\ program.ok /\ ~rle) =>
        /\ fmt(program) = CommandsOnly(source)
        /\ Range(source) \subseteq CommandChars => fmt(program) = source
        /\ Len(program.code) = Len(CommandsOnly(source))
        /\ \A i \in 1..Len(program.code) :
              /\ program.code[i] = Unwrap(convert(CommandsOnly(source)[i]))
              /\ count(program.code[i]) = 1

\* A source with all eight commands and another character between them has
\* been built without folding.
C38_Witness ==
    /\ phase = "ready"
    /\ ~rle
    /\ program.ok
    /\ CommandChars \subseteq Range(source)
    /\ Range(source) \ CommandChars # {}
    /\ Len(fmt(program)) = Len(source) - 1

(***************************************************************************)
(* The input capabilities.                                                 *)
(***************************************************************************)
MaxReadLen == 2
Bytes == 0 .. CellMod - 1
\* characters of a &str: bytes, and code points above 255
ReadChars == {0, Newline, 65, 255, 321}
ReadBytes == {0, Newline, 255}

\* One console byte of every value, and short strings and byte sequences.
ReadInputs ==
    {StdinConsole(<<b>>) : b \in Bytes}
        \cup {StdinConsole(d) : d \in SeqsUpTo(ReadBytes, MaxReadLen)}
        \cup {StdinString(d) : d \in SeqsUpTo(ReadChars, MaxReadLen)}

InitRead ==
    /\ phase = "reading"
    /\ input \in ReadInputs
    /\ reader = input
    /\ jit = IF input.kind = "console" THEN JitStart(input.data, 1) ELSE NoJit
    /\ delivered = <<>>
    /\ thunk_delivered = <<>>
    /\ source = <<>>
    /\ rle = FALSE
    /\ memory_size = 1
    /\ program = NoProgram
    /\ step_ip = 0
    /\ step = None
    /\ vm = NoVM
    /\ PlainIdle
    /\ ast = Node("Program", <<>>)
    /\ calls = <<>>
    /\ DbgIdle
    /\ ProfIdle

\* stdin.read(), once past the end of the input at most
ReadCall ==
    /\ phase = "reading"
    /\ Len(delivered) <= Len(input.data)
    /\ LET r == StdinRead(reader)
       IN  /\ reader' = r.rest
           /\ delivered' = Append(delivered, [res |-> r.res, value |-> r.value])
    /\ UNCHANGED <<phase, parseVars, vmVars, plainVars, jitVars,
                   thunk_delivered, dbgVars, profVars>>

\* The emitted Input: blr x20 (the input thunk); strb w0, [x21].
ThunkCall ==
    /\ phase = "reading"
    /\ jit.status = "running"
    /\ jit' = InputThunk(jit)
    /\ thunk_delivered' =
           IF jit'.status = "running" THEN Append(thunk_delivered, jit'.memory[1])
           ELSE thunk_delivered
    /\ UNCHANGED <<phase, parseVars, vmVars, plainVars, ast, calls,
                   reader, delivered, dbgVars, profVars>>

NextRead == ReadCall \/ ThunkCall

SpecRead == InitRead /\ [][NextRead]_vars

\* C12: the console read and the JIT's input thunk both deliver '\n' as 0 and
\* every other byte as it is, so they agree on every input byte; the string
\* input delivers its characters as they are, '\n' included, in order, and
\* then reports the end of the input with Ok(None).
C12_DeliveredBytes ==
    phase = "reading" =>
        /\ input.kind = "console" =>
               /\ \A i \in 1 .. Len(input.data) :
                      /\ i <= Len(delivered) =>
                             delivered[i] = [res |-> "Ok",
                                             value |-> Some(ConsoleValue(input.data[i]))]
                      /\ i <= Len(thunk_delivered) =>
                             thunk_delivered[i] = ConsoleValue(input.data[i])
                      /\ (i <= Len(delivered) /\ i <= Len(thunk_delivered)) =>
                             delivered[i].value = Some(thunk_delivered[i])
               /\ Len(thunk_delivered) <= Len(input.data)
        /\ input.kind = "string" =>
               /\ \A i \in 1 .. Len(delivered) :
                      delivered[i] =
                          [res |-> "Ok",
                           value |-> IF i <= Len(input.data) THEN Some(input.data[i])
                                     ELSE None]
               /\ thunk_delivered = <<>>

\* Both console paths have delivered a '\n' followed by the byte 255.
C12_Witness ==
    /\ phase = "reading"
    /\ input = StdinConsole(<<Newline, 255>>)
    /\ Len(delivered) = 2
    /\ Len(thunk_delivered) = 2

\* C11: an Input step taken when the input is exhausted, string or console,
\* is not an error: the cell is kept and the run goes on with the next opcode
\* (or is done when there is none).
C11_ReadAtEndOfInput ==
    [][ (Executes("Input") /\ vm.stdin.data = <<>>) =>
            LET s == Unwrap(get_step(program, vm.ip))
            IN  /\ vm'.result \notin EvalErrors
                /\ Cell(vm)' = Cell(vm)
                /\ IF IsSome(s.then_ip)
                   THEN vm'.ip = Unwrap(s.then_ip) /\ vm'.result = "Ok(false)"
                   ELSE vm'.result = "Ok(true)"
      ]_vars

====
